---------------------------- MODULE Spec2Model ----------------------------
(***************************************************************************)
(* reservation-service: the event log (event_store table), the read model  *)
(* (reservations table), the GraphQL commands and queries that run in      *)
(* request-scoped database sessions, and the projector's rebuild.          *)
(*                                                                         *)
(* A request holds one SQLAlchemy session (db.py SessionLocal,             *)
(* autoflush=False) on one pooled connection.  Each SQL statement reads    *)
(* the committed tables as they are when it runs (read committed), the     *)
(* session's own inserts and updates reach the tables at db.commit().      *)
(***************************************************************************)
EXTENDS Integers, Sequences, FiniteSets, TLC

(* ------------------------------ bounds -------------------------------- *)
MaxAggs == 2
MaxEvents == 3
MaxClock == 1

Tenants == {"tA", "tB"}
Requests == {1, 2}
Spots == {"spot-1"}
StartTimes == {10}
Durations == {0, 2, 25}
TxnRefs == {"TXN-1"}
Users == {"user-1"}
Costs == {-1, 5}

AggIds == 1..MaxAggs

(* ------------------------------ models.py ----------------------------- *)
PENDING == "PENDING"
CONFIRMED == "CONFIRMED"
CANCELLED == "CANCELLED"
COMPLETED == "COMPLETED"
EXPIRED == "EXPIRED"
ReservationStatus == {PENDING, CONFIRMED, CANCELLED, COMPLETED, EXPIRED}

RESERVATION_CREATED == "RESERVATION_CREATED"
RESERVATION_CONFIRMED == "RESERVATION_CONFIRMED"
RESERVATION_CANCELLED == "RESERVATION_CANCELLED"
RESERVATION_COMPLETED == "RESERVATION_COMPLETED"
RESERVATION_EXPIRED == "RESERVATION_EXPIRED"
PAYMENT_PROCESSED == "PAYMENT_PROCESSED"
PAYMENT_FAILED == "PAYMENT_FAILED"
EventType == {RESERVATION_CREATED, RESERVATION_CONFIRMED, RESERVATION_CANCELLED,
              RESERVATION_COMPLETED, RESERVATION_EXPIRED, PAYMENT_PROCESSED,
              PAYMENT_FAILED}

\* schema.py:439, the longest reservation create_reservation accepts.
MaxDurationHours == 24

\* Python's None, an absent read-model row, an absent pending event.
None == "None"
NoRow == [absent |-> TRUE]
NoEvent == [absent |-> TRUE]
NoRebuild == [absent |-> TRUE]

VARIABLES
    events,      \* event_store table: the committed events, in commit order
    rows,        \* reservations table: aggregate id -> committed row or NoRow
    now,         \* the clock datetime.utcnow() reads
    req,         \* per request: its session and the resolver's position
    pool,        \* the idle connections of the pool, oldest first: the
                 \* app.tenant_id each carries
    rb,          \* the session running rebuild_from_events
    lastRebuild, \* history: the last committed rebuild when nothing was
                 \* committed since, and the result of the one before it
                 \* (prev) when that one had the same scope and read the same
                 \* events (twice)
    pay,         \* a call of process_payment_for_reservation: its position,
                 \* its loop variables, and (history) what each attempt met
    proj         \* a call of ReservationProjector.apply_event on its own: the
                 \* reservations its session held, the event, what it
                 \* returned and what the session's flush made of it

vars == <<events, rows, now, req, pool, rb, lastRebuild, pay, proj>>


(* ------------------------------ helpers ------------------------------- *)
EventIdx == 1..Len(events)

\* The indices of the committed events of one aggregate.
EventsOf(log, id) == {i \in 1..Len(log) : log[i].aggregate_id = id}

MaxOf(S) == CHOOSE x \in S : \A y \in S : y <= x

(* ----------------------- PostgreSQL row-level security ----------------- *)
\* The RLS policies of both tables compare tenant_id with the session's
\* app.tenant_id (db.py:7-10, schema.py:7-11); they are not part of src/.
RLSVisibleRow(tenantVar, row) == row # NoRow /\ row.tenant_id = tenantVar

RLSVisibleEvent(tenantVar, e) == e.tenant_id = tenantVar

(* --------------------------- event_store.py --------------------------- *)
\* A _get_next_version whose SELECT found no event.
GetNextVersionUnseen(log, tenantVar, id) == 1

\* EventStore._get_next_version: SELECT version ... ORDER BY version DESC
\* LIMIT 1 over the committed events the session may see, (result or 0) + 1.
GetNextVersion(log, tenantVar, id) ==
    LET vs == {log[i].version : i \in {j \in EventsOf(log, id) :
                                        RLSVisibleEvent(tenantVar, log[j])}}
    IN  (IF vs = {} THEN 0 ELSE MaxOf(vs)) + 1

\* EventStore.append: the EventModel handed to session.add().
NewEvent(log, tenantVar, id, type, data, tenant, clock) ==
    [aggregate_id |-> id,
     aggregate_type |-> "Reservation",
     event_type |-> type,
     version |-> GetNextVersion(log, tenantVar, id),
     data |-> data,
     tenant_id |-> tenant,
     created_at |-> clock]

\* str(uuid) and UUID(text): a UUID and its text form.
Str(u) == <<"str", u>>

UUID(text) == text[2]

\* datetime.isoformat() and datetime.fromisoformat(text): a datetime and its
\* ISO 8601 text, which keeps the microseconds and the offset.
IsoFormat(t) == <<"iso", t>>

FromIsoFormat(text) == text[2]

\* An aggregate whose end time is its start time.
ReservationAggregateNoDuration(id, tenant, user, spot, start, duration, cost, clock) ==
    [id |-> id, tenant_id |-> tenant, user_id |-> user,
     parking_spot_id |-> spot, start_time |-> start, end_time |-> start,
     duration_hours |-> duration, total_cost |-> cost, status |-> PENDING,
     transaction_id |-> None, created_at |-> clock, updated_at |-> clock]

\* ReservationAggregate.__init__
ReservationAggregate(id, tenant, user, spot, start, duration, cost, clock) ==
    [id |-> id,
     tenant_id |-> tenant,
     user_id |-> user,
     parking_spot_id |-> spot,
     start_time |-> start,
     end_time |-> start + duration,
     duration_hours |-> duration,
     total_cost |-> cost,
     status |-> PENDING,
     transaction_id |-> None,
     created_at |-> clock,
     updated_at |-> clock]

\* ReservationAggregate.to_event_data
ToEventData(agg) ==
    [id |-> Str(agg.id),
     tenant_id |-> Str(agg.tenant_id),
     user_id |-> Str(agg.user_id),
     parking_spot_id |-> agg.parking_spot_id,
     start_time |-> IsoFormat(agg.start_time),
     end_time |-> IsoFormat(agg.end_time),
     duration_hours |-> agg.duration_hours,
     total_cost |-> agg.total_cost,
     status |-> agg.status,
     transaction_id |-> IF agg.transaction_id # None
                        THEN Str(agg.transaction_id) ELSE None,
     created_at |-> IsoFormat(agg.created_at),
     updated_at |-> IsoFormat(agg.updated_at)]

\* A projection that took the payload's timestamps for the row's start and
\* end.
HandleReservationCreatedStamped(e) ==
    [id |-> UUID(e.data.id),
     tenant_id |-> UUID(e.data.tenant_id),
     user_id |-> UUID(e.data.user_id),
     parking_spot_id |-> e.data.parking_spot_id,
     start_time |-> FromIsoFormat(e.data.created_at),
     end_time |-> FromIsoFormat(e.data.updated_at),
     duration_hours |-> e.data.duration_hours,
     total_cost |-> e.data.total_cost,
     status |-> e.data.status,
     transaction_id |-> None,
     created_at |-> FromIsoFormat(e.data.created_at),
     updated_at |-> FromIsoFormat(e.data.updated_at)]

\* ReservationProjector._handle_reservation_created: the row built from the
\* payload; the payload's transaction_id is not read.
HandleReservationCreated(e) ==
    [id |-> UUID(e.data.id),
     tenant_id |-> UUID(e.data.tenant_id),
     user_id |-> UUID(e.data.user_id),
     parking_spot_id |-> e.data.parking_spot_id,
     start_time |-> FromIsoFormat(e.data.start_time),
     end_time |-> FromIsoFormat(e.data.end_time),
     duration_hours |-> e.data.duration_hours,
     total_cost |-> e.data.total_cost,
     status |-> e.data.status,
     transaction_id |-> None,
     created_at |-> FromIsoFormat(e.data.created_at),
     updated_at |-> FromIsoFormat(e.data.updated_at)]

\* A _handle_status_change that made up a row when it found none.
HandleStatusChangeUpsert(found, e, clock) ==
    IF found = NoRow
    THEN [ReservationAggregate(UUID(e.data.id), e.tenant_id, "user-1", "spot-1",
                               10, 2, 5, clock) EXCEPT !.status = e.data.status]
    ELSE [found EXCEPT !.status = e.data.status, !.updated_at = clock]

\* A _handle_status_change that also took the row's creation time from the
\* clock.
HandleStatusChangeRestamped(found, e, clock) ==
    IF found = NoRow THEN NoRow
    ELSE [found EXCEPT !.status = e.data.status, !.updated_at = clock,
                       !.created_at = clock]

\* ReservationProjector._handle_status_change; found is what
\* session.get(ReservationModel, id) returned.
HandleStatusChange(found, e, clock) ==
    IF found = NoRow THEN NoRow
    ELSE [found EXCEPT !.status = e.data.status, !.updated_at = clock]

\* Python's truth value of an optional string: None and "" are false.
Truthy(x) == x \notin {None, ""}

\* A _handle_payment_processed that left the row's transaction_id alone.
HandlePaymentProcessedNoTxn(found, e, clock) ==
    IF found = NoRow THEN NoRow
    ELSE [found EXCEPT !.status = CONFIRMED, !.updated_at = clock]

\* ReservationProjector._handle_payment_processed
HandlePaymentProcessed(found, e, clock) ==
    IF found = NoRow THEN NoRow
    ELSE [found EXCEPT !.status = CONFIRMED,
                       !.transaction_id = IF Truthy(e.data.transaction_id)
                                          THEN e.data.transaction_id ELSE None,
                       !.updated_at = clock]

\* ReservationProjector._handle_payment_failed
HandlePaymentFailed(found, e, clock) ==
    IF found = NoRow THEN NoRow
    ELSE [found EXCEPT !.status = CANCELLED, !.updated_at = clock]

\* EventType(event.event_type) for a text that is no value of the enum.
ValueErrorRaised == [raised |-> "ValueError"]

\* ReservationProjector.apply_event: the dispatch over the event kinds.  The
\* result is the row the handler returned, NoRow when it returned None.
ApplyEvent(found, e, clock) ==
    CASE e.event_type = RESERVATION_CREATED -> HandleReservationCreated(e)
      [] e.event_type \in {RESERVATION_CONFIRMED, RESERVATION_CANCELLED,
                           RESERVATION_COMPLETED, RESERVATION_EXPIRED}
            -> HandleStatusChange(found, e, clock)
      [] e.event_type = PAYMENT_PROCESSED -> HandlePaymentProcessed(found, e, clock)
      [] e.event_type = PAYMENT_FAILED -> HandlePaymentFailed(found, e, clock)
      [] OTHER -> ValueErrorRaised


(* -------------------------------- db.py ------------------------------- *)
\* models.py:215-219: idx_events_aggregate_version is a plain Index, not a
\* unique one, so the table accepts a second event with the same
\* (aggregate_id, version).
UniqueAggregateVersion == FALSE

\* A set_tenant_id that left a tenant id the connection already carries.
SetTenantIdOnce(current, tenant) ==
    IF current # None \/ tenant = None THEN current ELSE tenant

\* set_tenant_id: SET app.tenant_id = '<tenant>' on the session; the value
\* the session variable then holds.
SetTenantId(current, tenant) ==
    IF tenant = None THEN current ELSE tenant

\* get_context: the tenant id is set on the session before the resolver
\* runs.  carried is the app.tenant_id the connection holds from its earlier
\* use.  setOk = FALSE is the SET statement failing, which set_tenant_id
\* swallows (db.py:131-133): the variable keeps the carried value and
\* PostgreSQL refuses every later statement of the transaction.
\* stmts holds the value texts of the SET app.tenant_id statements the calls
\* of set_tenant_id executed on the session, in order; more holds the events
\* the session has pending beside ev, in the order of their session.add().
GetContext(tenant, carried, setOk, stmts) ==
    [pc |-> "ctx", op |-> None, tenant |-> tenant, carry |-> carried,
     var |-> IF setOk THEN SetTenantId(carried, tenant) ELSE carried,
     txOk |-> setOk, id |-> 0, txn |-> None, seen |-> NoRow, obj |-> NoRow,
     ev |-> NoEvent, out |-> None, kind |-> None, res |-> {}, stmts |-> stmts,
     more |-> <<>>]

IdleReq ==
    [pc |-> "idle", op |-> None, tenant |-> None, carry |-> None, var |-> None,
     txOk |-> TRUE, id |-> 0, txn |-> None, seen |-> NoRow, obj |-> NoRow,
     ev |-> NoEvent, out |-> None, kind |-> None, res |-> {}, stmts |-> <<>>,
     more |-> <<>>]

\* What the caller receives for an outcome: the class of the exception the
\* resolver raises, or of the failure object it returns; None for a result.
\* create, confirm, cancel and complete raise ValueError for every
\* rejection (invalid input, conflict, unknown id, status not allowed);
\* delete returns DeleteResult(success=False); a statement on a failed
\* transaction and a failed flush or commit raise SQLAlchemy's exceptions.
ErrorKind(op, out) ==
    CASE out \in {"validation", "conflict"} -> "ValueError"
      [] out \in {"not_found", "illegal"} ->
            IF op = "delete" THEN "DeleteResult" ELSE "ValueError"
      [] out \in {"error", "aborted"} -> "SQLAlchemyError"
      [] out = "no_value" -> "AttributeError"
      [] OTHER -> None

\* The resolver of request r has returned or raised: what is left of the
\* request is its answer and the session that get_db still has to close.
Finished(r, op, out, res) ==
    [IdleReq EXCEPT !.pc = "close", !.op = op, !.out = out, !.res = res,
                    !.kind = ErrorKind(op, out),
                    !.tenant = req[r].tenant, !.carry = req[r].carry,
                    !.var = req[r].var, !.stmts = req[r].stmts]

\* get_db: SessionLocal() takes the connection that has been idle longest
\* (the engine's QueuePool, db.py:38-44), a new one when none is idle; then
\* get_context runs.  Requests are served in the lowest free slot.
BeginRequestWith(r, tenant, setOk, stmts) ==
    /\ req[r].pc = "idle"
    /\ \A q \in Requests : q < r => req[q].pc # "idle"
    /\ IF pool = <<>>
       THEN /\ req' = [req EXCEPT ![r] = GetContext(tenant, None, setOk, stmts)]
            /\ pool' = pool
       ELSE /\ req' = [req EXCEPT ![r] =
                           GetContext(tenant, Head(pool), setOk, stmts)]
            /\ pool' = Tail(pool)
    /\ UNCHANGED <<events, rows, now, rb, lastRebuild, pay, proj>>

\* main.py:32, the tenant of a request that names none.
DEFAULT_TENANT_ID == "t0"

\* A header or token value that is absent (None or empty), and one that is
\* present but no UUID text.
Absent == <<>>
Malformed == <<"not-a-uuid">>

\* A text of 32 characters that int(text, 16) reads although it is no
\* hexadecimal form of a UUID, such as "+" or " " followed by 31 hexadecimal
\* digits, or "0x" followed by 30: uuid.UUID(text) takes "urn:", "uuid:",
\* braces and hyphens off, asks for 32 characters and hands them to
\* int(hex, 16), which accepts a sign, blanks and the 0x prefix.  u is the
\* UUID the constructor returns for it.
Int16Text(u) == <<"int16", u>>

\* A UUID(tenant_id_str) that accepted nothing but the text str(uuid) gives.
ValidUUIDTextStrict(text) == Len(text) = 2 /\ text[1] = "str"

\* UUID(tenant_id_str) of set_tenant_id does not raise.
ValidUUIDText(text) == Len(text) = 2 /\ text[1] \in {"str", "int16"}

\* set_tenant_id(session, tenant_id) for a text (Absent is None): whether it
\* raised ValueError, and the value texts of the SET statements it executed.
\* The statement is built from tenant_id_str, the text as given, not from
\* the UUID the validation parsed.
SetTenantIdCall(text) ==
    IF text = Absent THEN [raised |-> FALSE, stmts |-> <<>>]
    ELSE IF ~ValidUUIDText(text) THEN [raised |-> TRUE, stmts |-> <<>>]
    ELSE [raised |-> FALSE, stmts |-> <<text>>]

\* get_db, then set_tenant_id with a tenant UUID (None for no tenant).
BeginRequest(r, tenant, setOk) ==
    BeginRequestWith(r, tenant, setOk,
                     SetTenantIdCall(IF tenant = None THEN Absent
                                     ELSE Str(tenant)).stmts)

\* get_context, lines 186-200: the X-Tenant-ID header, else the tenant_id of
\* the verified token (Absent without one), else DEFAULT_TENANT_ID.
NamedTenant(header, tokenTenant) ==
    IF header # Absent THEN header
    ELSE IF tokenTenant # Absent THEN tokenTenant
    ELSE Str(DEFAULT_TENANT_ID)

\* get_context, lines 186-211: the tenant text of the context; when
\* set_tenant_id raises ValueError for the named text, DEFAULT_TENANT_ID.
ResolveTenant(header, tokenTenant) ==
    LET named == NamedTenant(header, tokenTenant)
    IN  IF SetTenantIdCall(named).raised THEN Str(DEFAULT_TENANT_ID) ELSE named

\* get_context, lines 204-211: the SET statements of its one or two calls of
\* set_tenant_id.
ContextStatements(header, tokenTenant) ==
    LET first == SetTenantIdCall(NamedTenant(header, tokenTenant))
    IN  IF first.raised
        THEN first.stmts \o SetTenantIdCall(Str(DEFAULT_TENANT_ID)).stmts
        ELSE first.stmts

\* get_db and get_context for a GraphQL request with the given header and
\* token; schema.get_tenant_id hands the resolvers PyUUID(context tenant_id).
BeginGraphQLRequest(r, header, tokenTenant, setOk) ==
    BeginRequestWith(r, UUID(ResolveTenant(header, tokenTenant)), setOk,
                     ContextStatements(header, tokenTenant))

\* The resolver's first statement on a transaction PostgreSQL has aborted.
ResolverOnFailedTx(r) ==
    /\ req[r].pc = "ctx"
    /\ ~req[r].txOk
    /\ req' = [req EXCEPT ![r] = Finished(r, None, "error", {})]
    /\ UNCHANGED <<events, rows, now, pool, rb, lastRebuild, pay, proj>>

\* A SELECT ... WHERE id = :id that returned the row of any tenant.
SelectRowAnyTenant(tenantVar, id) == rows[id]

\* SELECT ... WHERE id = :id as the session sees it (RLS applied).
SelectRow(tenantVar, id) ==
    IF RLSVisibleRow(tenantVar, rows[id]) THEN rows[id] ELSE NoRow

(* ------------------------------ schema.py ----------------------------- *)
ActiveStatuses == {PENDING, CONFIRMED}

\* The availability SELECT of create_reservation and check_availability.
Conflicts(tenantVar, spot, start, end) ==
    {id \in AggIds :
        /\ RLSVisibleRow(tenantVar, rows[id])
        /\ rows[id].parking_spot_id = spot
        /\ rows[id].status \in ActiveStatuses
        /\ rows[id].start_time < end
        /\ rows[id].end_time > start}

\* uuid4() (schema.py:474) returns an id nothing holds yet: no event, no row
\* and no session.  Ids that left no trace are interchangeable, the model
\* hands out the least.
FreshIds ==
    AggIds \ ({events[i].aggregate_id : i \in EventIdx}
              \cup {req[q].id : q \in Requests})

Uuid4 == CHOOSE id \in FreshIds : \A other \in FreshIds : id <= other

\* A validation without the upper limit of the duration.
InvalidInputUnlimited(duration, cost) == duration <= 0 \/ cost < 0

\* The validation of create_reservation (schema.py:436-444).
InvalidInput(duration, cost) ==
    duration <= 0 \/ duration > MaxDurationHours \/ cost < 0

\* What the conflict error of create_reservation tells the caller
\* (schema.py:467-471): the number of conflicting reservations.
ConflictError(conflicts) ==
    {[kind |-> "conflicts", count |-> Cardinality(conflicts)]}

\* Mutation.create_reservation up to db.commit(): validation, the
\* availability check, the aggregate, the appended event and its projection
\* (both pending in the session).
CreateReservation(r, user, spot, start, duration, cost) ==
    /\ req[r].pc = "ctx"
    /\ req[r].txOk
    /\ IF InvalidInput(duration, cost)
       THEN req' = [req EXCEPT ![r] = Finished(r, "create", "validation", {})]
       ELSE IF Conflicts(req[r].var, spot, start, start + duration) # {}
       THEN req' = [req EXCEPT ![r] =
                        Finished(r, "create", "conflict",
                                 ConflictError(Conflicts(req[r].var, spot, start,
                                                         start + duration)))]
       ELSE /\ FreshIds # {}
            /\ LET id == Uuid4
                   agg == ReservationAggregate(id, req[r].tenant, user, spot,
                                               start, duration, cost, now)
                   e == NewEvent(events, req[r].var, id, RESERVATION_CREATED,
                                 ToEventData(agg), req[r].tenant, now)
               IN  req' = [req EXCEPT ![r].pc = "commit", ![r].op = "create",
                                      ![r].id = id, ![r].ev = e,
                                      ![r].obj = ApplyEvent(NoRow, e, now)]
    /\ UNCHANGED <<events, rows, now, pool, rb, lastRebuild, pay, proj>>

\* Status commands that accepted a row in any status.
AllowedFromAny(op) == ReservationStatus

\* The statuses each status command accepts (schema.py:546, 603-606, 657).
AllowedFrom(op) ==
    CASE op = "confirm" -> {PENDING}
      [] op = "cancel" -> {PENDING, CONFIRMED}
      [] op = "complete" -> {CONFIRMED}

\* The first half of confirm_reservation, cancel_reservation and
\* complete_reservation: the row is selected and its status checked.
SelectForCommand(r, op, id, txn) ==
    /\ req[r].pc = "ctx"
    /\ req[r].txOk
    /\ LET row == SelectRow(req[r].var, id)
       IN  IF row = NoRow
           THEN req' = [req EXCEPT ![r] = Finished(r, op, "not_found", {})]
           ELSE IF row.status \notin AllowedFrom(op)
           THEN req' = [req EXCEPT ![r] = Finished(r, op, "illegal", {})]
           ELSE req' = [req EXCEPT ![r].pc = "append", ![r].op = op,
                                   ![r].id = id, ![r].txn = txn,
                                   ![r].seen = row, ![r].obj = row]
    /\ UNCHANGED <<events, rows, now, pool, rb, lastRebuild, pay, proj>>

ConfirmReservation(r, id, txn) == SelectForCommand(r, "confirm", id, txn)

CancelReservation(r, id) == SelectForCommand(r, "cancel", id, None)

CompleteReservation(r, id) == SelectForCommand(r, "complete", id, None)

\* The event each status command appends (schema.py:553-563, 613-623, 664-673).
CommandEventType(op) ==
    CASE op = "confirm" -> PAYMENT_PROCESSED
      [] op = "cancel" -> RESERVATION_CANCELLED
      [] op = "complete" -> RESERVATION_COMPLETED

CommandEventData(op, id, txn) ==
    CASE op = "confirm" ->
            [id |-> Str(id), status |-> CONFIRMED, transaction_id |-> txn]
      [] op = "cancel" -> [id |-> Str(id), status |-> CANCELLED, reason |-> None]
      [] op = "complete" -> [id |-> Str(id), status |-> COMPLETED]

\* The second half of a status command up to db.commit(): event_store.append
\* (the version is read now) and projector.apply_event, whose session.get
\* returns the row object the command selected.
AppendAndProject(r) ==
    /\ req[r].pc = "append"
    /\ LET e == NewEvent(events, req[r].var, req[r].id,
                         CommandEventType(req[r].op),
                         CommandEventData(req[r].op, req[r].id, req[r].txn),
                         req[r].tenant, now)
       IN  req' = [req EXCEPT ![r].pc = "commit", ![r].ev = e,
                              ![r].obj = ApplyEvent(req[r].seen, e, now)]
    /\ UNCHANGED <<events, rows, now, pool, rb, lastRebuild, pay, proj>>


\* The UPDATE the unit of work emits at flush for a row object the session
\* loaded as seen and the projector changed to obj: it sets the attributes
\* whose value changed and leaves the other columns as committed.
FlushUpdate(committed, seen, obj) ==
    [committed EXCEPT
        !.status = IF obj.status # seen.status THEN obj.status ELSE @,
        !.transaction_id = IF obj.transaction_id # seen.transaction_id
                           THEN obj.transaction_id ELSE @,
        !.updated_at = obj.updated_at]

\* A commit that wrote the event without the row change.
CommitRowsLost(r) == rows

\* What db.commit() of a command makes of the read model: the INSERT of a
\* created row, the UPDATE of a changed one.
CommitRows(r) ==
    IF req[r].op = "create"
    THEN [rows EXCEPT ![req[r].id] = req[r].obj]
    ELSE [rows EXCEPT ![req[r].id] =
              FlushUpdate(rows[req[r].id], req[r].seen, req[r].obj)]

\* What db.commit() of a command makes of the event log: the INSERT of the
\* pending event.
CommitEvents(r) == Append(events, req[r].ev)

\* The bulk DELETE of a rebuild that has not ended yet holds the lock of every
\* row it deleted: an UPDATE or DELETE of such a row by another session waits
\* for the rebuild's transaction to end.
RowLocked(id) == rb.pc = "replay" /\ id \in rb.deleted

\* The flush fails and the transaction is rolled back when the UPDATE matches
\* no row (StaleDataError: the row was deleted meanwhile) or when a unique
\* index rejects the event.
CommitFails(r) ==
    \/ req[r].op # "create" /\ rows[req[r].id] = NoRow
    \/ /\ UniqueAggregateVersion
       /\ \E i \in EventsOf(events, req[r].id) :
             events[i].version = req[r].ev.version

\* db.commit() of create, confirm, cancel and complete: the event and the
\* row change reach the tables in one transaction, with the SET of
\* app.tenant_id, which from then on stays on the connection.
Commit(r) ==
    /\ req[r].pc = "commit"
    /\ Len(events) < MaxEvents
    /\ IF req[r].op # "create" /\ RowLocked(req[r].id)
       THEN /\ req' = [req EXCEPT ![r].pc = "blocked"]
            /\ UNCHANGED <<events, rows, lastRebuild>>
       ELSE IF CommitFails(r)
       THEN /\ req' = [req EXCEPT ![r] = Finished(r, req[r].op, "error", {})]
            /\ UNCHANGED <<events, rows, lastRebuild>>
       ELSE /\ events' = CommitEvents(r)
            /\ rows' = CommitRows(r)
            /\ req' = [req EXCEPT ![r] =
                          [Finished(r, req[r].op, "ok", {})
                              EXCEPT !.carry = req[r].var]]
            /\ lastRebuild' = NoRebuild
    /\ UNCHANGED <<now, pool, rb, pay, proj>>

\* A command that is cancelled, times out or meets a storage error before it
\* commits: the resolver raises and nothing of the session is written.
Abort(r) ==
    /\ req[r].pc \in {"append", "commit", "delete", "blocked"}
    /\ req' = [req EXCEPT ![r] = Finished(r, req[r].op, "aborted", {})]
    /\ UNCHANGED <<events, rows, now, pool, rb, lastRebuild, pay, proj>>

\* get_db's finally: db.close() rolls back what was not committed and hands
\* the connection back to the pool with the app.tenant_id it carries: no
\* RESET is issued.
CloseRequest(r) ==
    /\ req[r].pc = "close"
    /\ req' = [req EXCEPT ![r] = IdleReq]
    /\ pool' = Append(pool, req[r].carry)
    /\ UNCHANGED <<events, rows, now, rb, lastRebuild, pay, proj>>

\* A delete_reservation that accepted a row in any status.
DeletableStatusesAny == ReservationStatus

\* The statuses delete_reservation accepts (schema.py:707-710).
DeletableStatuses == {PENDING, CANCELLED}

\* Mutation.delete_reservation up to db.delete(): the row is selected and
\* its status checked.
DeleteReservation(r, id) ==
    /\ req[r].pc = "ctx"
    /\ req[r].txOk
    /\ LET row == SelectRow(req[r].var, id)
       IN  IF row = NoRow
           THEN req' = [req EXCEPT ![r] = Finished(r, "delete", "not_found", {})]
           ELSE IF row.status \notin DeletableStatuses
           THEN req' = [req EXCEPT ![r] = Finished(r, "delete", "illegal", {})]
           ELSE req' = [req EXCEPT ![r].pc = "delete", ![r].op = "delete",
                                   ![r].id = id, ![r].seen = row]
    /\ UNCHANGED <<events, rows, now, pool, rb, lastRebuild, pay, proj>>

\* db.delete(reservation); db.commit(): DELETE FROM reservations WHERE id.
DeleteRows(r) == [rows EXCEPT ![req[r].id] = NoRow]

\* A delete_reservation that took the aggregate's events with the row.
DeleteCommitWithEvents(r) ==
    /\ req[r].pc = "delete"
    /\ rows' = DeleteRows(r)
    /\ events' = SelectSeq(events, LAMBDA e : e.aggregate_id # req[r].id)
    /\ req' = [req EXCEPT ![r] =
                  [Finished(r, "delete", "ok", {}) EXCEPT !.carry = req[r].var]]
    /\ lastRebuild' = NoRebuild
    /\ UNCHANGED <<now, pool, rb, pay, proj>>

\* delete_reservation's db.commit(): no event is appended.  The request
\* keeps the id it removed until it is closed.
DeleteCommit(r) ==
    /\ req[r].pc = "delete"
    /\ IF RowLocked(req[r].id)
       THEN /\ req' = [req EXCEPT ![r].pc = "blocked"]
            /\ UNCHANGED <<rows, lastRebuild>>
       ELSE /\ rows' = DeleteRows(r)
            /\ req' = [req EXCEPT ![r] =
                          [Finished(r, "delete", "ok", {})
                              EXCEPT !.carry = req[r].var, !.id = req[r].id]]
            /\ lastRebuild' = NoRebuild
    /\ UNCHANGED <<events, now, pool, rb, pay, proj>>

\* datetime.utcnow() moves on.
Tick ==
    /\ now < MaxClock
    /\ now' = now + 1
    /\ UNCHANGED <<events, rows, req, pool, rb, lastRebuild, pay, proj>>


(* ------------------------------- queries ------------------------------ *)
RowItem(id) == [kind |-> "row", id |-> id, tenant_id |-> rows[id].tenant_id]

EventItem(i) ==
    [kind |-> "event", id |-> events[i].aggregate_id,
     tenant_id |-> events[i].tenant_id, version |-> events[i].version]

\* The ids of the rows a SELECT on reservations returns to the session.
VisibleRows(tenantVar) == {id \in AggIds : RLSVisibleRow(tenantVar, rows[id])}

\* A resolver that only reads: its answer is kept in res until the request
\* ends.
Answer(r, op, items) ==
    /\ req[r].pc = "ctx"
    /\ req[r].txOk
    /\ req' = [req EXCEPT ![r] = Finished(r, op, "ok", items)]
    /\ UNCHANGED <<events, rows, now, pool, rb, lastRebuild, pay, proj>>

\* Query.reservations (status and user filters; the default limit holds
\* every row of the model).
QueryReservations(r, status, user) ==
    Answer(r, "reservations",
           {RowItem(id) : id \in {x \in VisibleRows(req[r].var) :
                /\ status # None => rows[x].status = status
                /\ user # None => rows[x].user_id = user}})

\* Query.reservation_by_id
QueryReservationById(r, id) ==
    Answer(r, "reservationById",
           {RowItem(x) : x \in VisibleRows(req[r].var) \cap {id}})

\* Query.reservations_by_user
QueryReservationsByUser(r, user, includeCompleted) ==
    Answer(r, "reservationsByUser",
           {RowItem(id) : id \in {x \in VisibleRows(req[r].var) :
                /\ rows[x].user_id = user
                /\ ~includeCompleted => rows[x].status \in ActiveStatuses}})

\* Query.reservations_by_parking_spot (without the optional time range)
QueryReservationsByParkingSpot(r, spot) ==
    Answer(r, "reservationsByParkingSpot",
           {RowItem(id) : id \in {x \in VisibleRows(req[r].var) :
                /\ rows[x].parking_spot_id = spot
                /\ rows[x].status \in ActiveStatuses}})

\* Query.check_availability: the conflicting rows it lists.
QueryCheckAvailability(r, spot, start, duration) ==
    Answer(r, "checkAvailability",
           {RowItem(id) : id \in Conflicts(req[r].var, spot, start,
                                           start + duration)})

\* Query.reservation_stats: the rows its total counts.
QueryReservationStats(r) ==
    Answer(r, "reservationStats",
           {RowItem(id) : id \in VisibleRows(req[r].var)})

\* base_query.filter(status == ...).count() of get_reservation_stats.
CountByStatus(tenantVar, statuses) ==
    Cardinality({id \in VisibleRows(tenantVar) : rows[id].status \in statuses})

StatsResponse(total, active, pending, completed) ==
    [kind |-> "stats", total_reservations |-> total,
     active_reservations |-> active, pending_reservations |-> pending,
     completed_reservations |-> completed]

\* GET /stats (main.py): get_db and set_tenant_id as for a GraphQL request,
\* then four counts.  countsOk is FALSE when a count meets a storage error;
\* the counts also raise when the SET has left the transaction aborted.
\* The handler catches every exception and returns a response of zeros.
GetReservationStats(r, countsOk) ==
    /\ req[r].pc = "ctx"
    /\ req' = [req EXCEPT ![r] =
                  Finished(r, "stats", "ok",
                     {IF req[r].txOk /\ countsOk
                      THEN StatsResponse(
                              CountByStatus(req[r].var, ReservationStatus),
                              CountByStatus(req[r].var, {CONFIRMED}),
                              CountByStatus(req[r].var, {PENDING}),
                              CountByStatus(req[r].var, {COMPLETED}))
                      ELSE StatsResponse(0, 0, 0, 0)})]
    /\ UNCHANGED <<events, rows, now, pool, rb, lastRebuild, pay, proj>>

\* An optional integer argument: Omitted for None, <<n>> for the integer n.
Omitted == <<>>

\* A get_events that left out the event with the version asked for.
GetEventsAfter(log, tenantVar, id, fromVersion) ==
    {i \in EventsOf(log, id) :
        /\ RLSVisibleEvent(tenantVar, log[i])
        /\ fromVersion # Omitted => log[i].version > fromVersion[1]}

\* EventStore.get_events: the indices of the aggregate's events the session
\* sees, from from_version on (omitted: all).
GetEvents(log, tenantVar, id, fromVersion) ==
    {i \in EventsOf(log, id) :
        /\ RLSVisibleEvent(tenantVar, log[i])
        /\ fromVersion # Omitted => log[i].version >= fromVersion[1]}

\* ORDER BY version of get_events: the indices in S by ascending version;
\* events of equal version come as the table stores them.
RECURSIVE OrderByVersion(_, _)
OrderByVersion(log, S) ==
    IF S = {} THEN <<>>
    ELSE LET first == CHOOSE i \in S : \A j \in S :
                          \/ log[i].version < log[j].version
                          \/ log[i].version = log[j].version /\ i <= j
         IN  <<first>> \o OrderByVersion(log, S \ {first})

\* EventStore.get_events: the list it returns.
GetEventsList(log, tenantVar, id, fromVersion) ==
    OrderByVersion(log, GetEvents(log, tenantVar, id, fromVersion))

\* Query.events_by_reservation
QueryEventsByReservation(r, id) ==
    Answer(r, "eventsByReservation",
           LET list == GetEventsList(events, req[r].var, id, Omitted)
           IN  {EventItem(list[k]) : k \in 1..Len(list)})

\* ORDER BY created_at DESC: every order of the indices in S by descending
\* creation time; events of equal creation time come in any order.
RECURSIVE OrdersByCreatedAtDesc(_, _)
OrdersByCreatedAtDesc(log, S) ==
    IF S = {} THEN {<<>>}
    ELSE UNION {{<<i>> \o rest : rest \in OrdersByCreatedAtDesc(log, S \ {i})} :
                   i \in {j \in S : \A k \in S :
                              log[j].created_at >= log[k].created_at}}

\* LIMIT n: the first n of a list.
Limit(list, n) == SubSeq(list, 1, IF n < Len(list) THEN n ELSE Len(list))

\* A get_events_by_type that ignored its tenant_id argument.
GetEventsByTypeAnyTenant(log, tenantVar, type, tenant, limit) ==
    {Limit(list, limit) :
        list \in OrdersByCreatedAtDesc(log,
            {i \in 1..Len(log) : /\ RLSVisibleEvent(tenantVar, log[i])
                                 /\ log[i].event_type = type})}

\* EventStore.get_events_by_type: the lists it may return; tenant is None
\* when no tenant_id is given.
GetEventsByType(log, tenantVar, type, tenant, limit) ==
    {Limit(list, limit) :
        list \in OrdersByCreatedAtDesc(log,
            {i \in 1..Len(log) : /\ RLSVisibleEvent(tenantVar, log[i])
                                 /\ log[i].event_type = type
                                 /\ tenant # None => log[i].tenant_id = tenant})}

\* An event as get_events_by_type lists it, at position pos.
ListedEvent(i, pos) ==
    [kind |-> "event", id |-> events[i].aggregate_id,
     tenant_id |-> events[i].tenant_id, version |-> events[i].version,
     event_type |-> events[i].event_type, created_at |-> events[i].created_at,
     pos |-> pos]

\* A call of EventStore.get_events_by_type in a request's session.
EventsByTypeCall(r, type, tenant, limit) ==
    \E list \in GetEventsByType(events, req[r].var, type, tenant, limit) :
        Answer(r, "getEventsByType",
               {ListedEvent(list[k], k) : k \in 1..Len(list)})

(* ------------------------- rebuild_from_events ------------------------ *)
\* gone (history) holds the aggregates whose creation event the rebuild read
\* while the read model had no row for them.
IdleRebuild ==
    [pc |-> "idle", scope |-> None, read |-> {}, todo |-> {}, deleted |-> {},
     added |-> {}, pending |-> [id \in AggIds |-> NoRow], count |-> 0,
     gone |-> {}]

\* A rebuild that took every tenant for its scope.
InScopeAny(scope, tenant) == TRUE

\* The tenant filter of rebuild_from_events: none without a tenant_id.
InScope(scope, tenant) == scope = None \/ tenant = scope

\* The rows of a read model that lie in a rebuild's scope.
ScopeRows(rws, scope) ==
    [id \in AggIds |-> IF rws[id] # NoRow /\ InScope(scope, rws[id].tenant_id)
                       THEN rws[id] ELSE NoRow]

\* rebuild_from_events, the SELECT of the events of the scope (lines
\* 341-345).  The session sets no app.tenant_id: it filters by its argument.
RebuildRead(scope) ==
    /\ rb.pc = "idle"
    /\ rb' = [IdleRebuild EXCEPT
                 !.pc = "clear", !.scope = scope,
                 !.read = {i \in EventIdx : InScope(scope, events[i].tenant_id)},
                 !.todo = {i \in EventIdx : InScope(scope, events[i].tenant_id)},
                 !.gone = {events[i].aggregate_id :
                              i \in {j \in EventIdx :
                                        /\ InScope(scope, events[j].tenant_id)
                                        /\ rows[events[j].aggregate_id] = NoRow}}]
    /\ UNCHANGED <<events, rows, now, req, pool, lastRebuild, pay, proj>>

\* rebuild_from_events, the bulk DELETE of the rows of the scope (lines
\* 348-353), executed in the session's transaction.
RebuildClear ==
    /\ rb.pc = "clear"
    /\ rb' = [rb EXCEPT
                 !.pc = "replay",
                 !.deleted = {id \in AggIds : ScopeRows(rows, rb.scope)[id] # NoRow}]
    /\ UNCHANGED <<events, rows, now, req, pool, lastRebuild, pay, proj>>

\* session.get in a session that flushed before each SELECT (autoflush): the
\* rows the replay added would be found.
RebuildLookupFlushed(id) ==
    IF rb.pending[id] # NoRow THEN rb.pending[id]
    ELSE IF id \in rb.deleted THEN NoRow
    ELSE rows[id]

\* session.get(ReservationModel, id) in the rebuilding session: the identity
\* map holds the rows the session loaded, not the rows session.add() left
\* pending (autoflush=False, db.py:47-52, so no flush precedes the SELECT);
\* the SELECT sees the table without the rows the session deleted.
RebuildLookup(id) ==
    IF id \notin rb.added /\ rb.pending[id] # NoRow THEN rb.pending[id]
    ELSE IF id \in rb.deleted THEN NoRow
    ELSE rows[id]

\* A replay loop that counted only the events that gave a row.
RebuildReplayCountingRows(i) ==
    /\ rb.pc = "replay"
    /\ i \in rb.todo
    /\ \A j \in rb.todo : events[i].created_at <= events[j].created_at
    /\ LET e == events[i]
           id == UUID(e.data.id)
           row == ApplyEvent(RebuildLookup(id), e, now)
       IN  rb' = [rb EXCEPT
                     !.todo = @ \ {i},
                     !.count = IF row = NoRow THEN @ ELSE @ + 1,
                     !.added = IF e.event_type = RESERVATION_CREATED
                               THEN @ \cup {id} ELSE @,
                     !.pending = IF row = NoRow THEN @
                                 ELSE [@ EXCEPT ![id] = row]]
    /\ UNCHANGED <<events, rows, now, req, pool, lastRebuild, pay, proj>>

\* One turn of the replay loop (lines 357-359): the next event in created_at
\* order, any of those with an equal created_at.
RebuildReplay(i) ==
    /\ rb.pc = "replay"
    /\ i \in rb.todo
    /\ \A j \in rb.todo : events[i].created_at <= events[j].created_at
    /\ LET e == events[i]
           id == UUID(e.data.id)
           row == ApplyEvent(RebuildLookup(id), e, now)
       IN  rb' = [rb EXCEPT
                     !.todo = @ \ {i},
                     !.count = @ + 1,
                     !.added = IF e.event_type = RESERVATION_CREATED
                               THEN @ \cup {id} ELSE @,
                     !.pending = IF row = NoRow THEN @
                                 ELSE [@ EXCEPT ![id] = row]]
    /\ UNCHANGED <<events, rows, now, req, pool, lastRebuild, pay, proj>>

\* What the commit of a rebuild makes of the read model: the deleted rows go,
\* the rows the replay added or changed are written.
RebuildRows ==
    [id \in AggIds |->
        IF rb.pending[id] # NoRow THEN rb.pending[id]
        ELSE IF id \in rb.deleted THEN NoRow
        ELSE rows[id]]

\* The sessions that wait for a row lock of the rebuild when it commits: the
\* row each waited for is gone, so the UPDATE of a status command matches no
\* row (StaleDataError, the command is rolled back) and the DELETE of
\* delete_reservation matches no row, which the unit of work only warns of.
WaitersAfterCommit ==
    [r \in Requests |->
        IF req[r].pc # "blocked" THEN req[r]
        ELSE IF req[r].op = "delete"
        THEN [Finished(r, "delete", "ok", {}) EXCEPT !.carry = req[r].var]
        ELSE Finished(r, req[r].op, "error", {})]

\* The sessions that wait for a row lock of the rebuild when it is rolled
\* back: their statement goes on against the row as it was.
WaitersAfterRollback ==
    [r \in Requests |->
        IF req[r].pc # "blocked" THEN req[r]
        ELSE IF req[r].op = "delete" THEN [req[r] EXCEPT !.pc = "delete"]
        ELSE [req[r] EXCEPT !.pc = "commit"]]

\* The caller's commit after rebuild_from_events returned its count
\* (get_db_context, db.py:83-86).
RebuildCommit ==
    /\ rb.pc = "replay"
    /\ rb.todo = {}
    /\ rows' = RebuildRows
    /\ lastRebuild' =
          LET twice == /\ lastRebuild # NoRebuild
                       /\ lastRebuild.scope = rb.scope
                       /\ lastRebuild.read = rb.read
          IN  [scope |-> rb.scope,
               read |-> rb.read,
               rows |-> ScopeRows(RebuildRows, rb.scope),
               count |-> rb.count,
               twice |-> twice,
               prev |-> IF twice THEN lastRebuild.rows
                        ELSE ScopeRows(RebuildRows, rb.scope)]
    /\ rb' = IdleRebuild
    /\ req' = WaitersAfterCommit
    /\ UNCHANGED <<events, now, pool, pay, proj>>

\* A caller that committed what the session holds when the rebuild raised.
RebuildAbortKeeping ==
    /\ rb.pc \in {"clear", "replay"}
    /\ rows' = RebuildRows
    /\ rb' = IdleRebuild
    /\ req' = WaitersAfterCommit
    /\ UNCHANGED <<events, now, pool, lastRebuild, pay, proj>>

\* rebuild_from_events raising, or the caller being cancelled, anywhere after
\* its first statement: the session is rolled back (db.py:87-91).
RebuildAbort ==
    /\ rb.pc \in {"clear", "replay"}
    /\ rb' = IdleRebuild
    /\ req' = WaitersAfterRollback
    /\ UNCHANGED <<events, rows, now, pool, lastRebuild, pay, proj>>

(* -------------------------- append on its own ------------------------- *)
\* What EventStore.append can be given as event_type: a member of EventType
\* (here the kinds no command appends), or a text that is not one (EventType
\* is a str enum, so a plain str is what a caller without the enum would
\* pass).
KindArgs ==
    {[class |-> "EventType", value |-> v] :
        v \in {RESERVATION_CONFIRMED, RESERVATION_EXPIRED, PAYMENT_FAILED}}
    \cup {[class |-> "str", value |-> "PAYMENT_REFUNDED"]}

\* An append that read the kind from any argument.
HasValueAttrAlways(arg) == TRUE

\* event_type.value: a member of the enum has it, a plain str does not.
HasValueAttr(arg) == arg.class = "EventType"

\* EventStore.append called with event_type = arg for aggregate id by a
\* caller that does not project: event_type.value is read before the
\* EventModel is built (the log line reads it again after session.add).
IngestCall(r, id, arg) ==
    /\ req[r].pc = "ctx"
    /\ req[r].txOk
    /\ IF HasValueAttr(arg)
       THEN req' = [req EXCEPT
                       ![r].pc = "ingest", ![r].op = "ingest", ![r].id = id,
                       ![r].ev = NewEvent(events, req[r].var, id, arg.value,
                                          [id |-> Str(id), status |-> CANCELLED,
                                           transaction_id |-> None],
                                          req[r].tenant, now)]
       ELSE req' = [req EXCEPT ![r] = Finished(r, "ingest", "no_value", {})]
    /\ UNCHANGED <<events, rows, now, pool, rb, lastRebuild, pay, proj>>

\* db.py:49, the autoflush setting of SessionLocal.
AutoFlush == FALSE

\* The pending events of session r that a SELECT of this session finds in
\* the table: session.add() leaves them in the session until a flush, and
\* without autoflush session.execute() flushes nothing.
PendingSeen(r) == IF AutoFlush THEN <<req[r].ev>> \o req[r].more ELSE <<>>

\* A further EventStore.append for the same aggregate on a session that has
\* appended already and has neither flushed nor committed since.
IngestAgain(r, arg) ==
    /\ req[r].pc = "ingest"
    /\ Len(events) + 1 + Len(req[r].more) < MaxEvents
    /\ HasValueAttr(arg)
    /\ req' = [req EXCEPT
                   ![r].more = Append(@,
                       NewEvent(events \o PendingSeen(r), req[r].var, req[r].id,
                                arg.value,
                                [id |-> Str(req[r].id), status |-> CANCELLED,
                                 transaction_id |-> None],
                                req[r].tenant, now))]
    /\ UNCHANGED <<events, rows, now, pool, rb, lastRebuild, pay, proj>>

\* The caller's db.commit(): the INSERTs of the appended events.
IngestCommit(r) ==
    /\ req[r].pc = "ingest"
    /\ Len(events) + Len(req[r].more) < MaxEvents
    /\ events' = Append(events, req[r].ev) \o req[r].more
    /\ req' = [req EXCEPT ![r] =
                  [Finished(r, "ingest", "ok", {}) EXCEPT !.carry = req[r].var]]
    /\ lastRebuild' = NoRebuild
    /\ UNCHANGED <<rows, now, pool, rb, pay, proj>>

(* ------------------------ apply_event on its own ---------------------- *)
\* The reservations a session can hold: per id no row, or a row in any status
\* with or without a transaction reference.
SampleRows(id) ==
    {NoRow} \cup
    {[ReservationAggregate(id, "tA", "user-1", "spot-1", 10, 2, 5, 0)
         EXCEPT !.status = st, !.transaction_id = txn] :
        st \in ReservationStatus, txn \in {None, "TXN-0"}}

SampleTables == {t \in [AggIds -> UNION {SampleRows(id) : id \in AggIds}] :
                    \A id \in AggIds : t[id] \in SampleRows(id)}

\* The status a status-change event of each kind carries.
StatusOfKind(type) ==
    CASE type = RESERVATION_CONFIRMED -> CONFIRMED
      [] type = RESERVATION_CANCELLED -> CANCELLED
      [] type = RESERVATION_COMPLETED -> COMPLETED
      [] type = RESERVATION_EXPIRED -> EXPIRED

\* The events apply_event can be given: one of each kind for each id, the
\* payment-processed ones with a reference, without one and with an empty one.
SampleEvents ==
    UNION {
       {[aggregate_id |-> id, aggregate_type |-> "Reservation",
         event_type |-> RESERVATION_CREATED, version |-> 1,
         data |-> ToEventData(
                     ReservationAggregate(id, "tA", "user-1", "spot-1", 10, 2, 5, 0)),
         tenant_id |-> "tA", created_at |-> 0]}
       \cup {[aggregate_id |-> id, aggregate_type |-> "Reservation",
              event_type |-> type, version |-> 2,
              data |-> [id |-> Str(id), status |-> StatusOfKind(type)],
              tenant_id |-> "tA", created_at |-> 0] :
                type \in {RESERVATION_CONFIRMED, RESERVATION_CANCELLED,
                          RESERVATION_COMPLETED, RESERVATION_EXPIRED}}
       \cup {[aggregate_id |-> id, aggregate_type |-> "Reservation",
              event_type |-> PAYMENT_PROCESSED, version |-> 2,
              data |-> [id |-> Str(id), status |-> CONFIRMED,
                        transaction_id |-> txn],
              tenant_id |-> "tA", created_at |-> 0] :
                txn \in {None, "", "TXN-1"}}
       \cup {[aggregate_id |-> id, aggregate_type |-> "Reservation",
              event_type |-> PAYMENT_FAILED, version |-> 2,
              data |-> [id |-> Str(id), status |-> CANCELLED],
              tenant_id |-> "tA", created_at |-> 0]}
       : id \in AggIds}

NotApplied == [pc |-> "idle"]

\* session.add() of a row whose primary key the session's reservations
\* already hold: the INSERT of the next flush violates the primary key.
FlushFails(table, e) ==
    e.event_type = RESERVATION_CREATED /\ table[UUID(e.data.id)] # NoRow

\* apply_event(e) in a session holding table, at time clock, and the flush
\* of the enclosing operation.
ProjectorApply(table, e, clock) ==
    /\ proj.pc = "idle"
    /\ proj' =
          LET id == UUID(e.data.id)
              returned == ApplyEvent(table[id], e, clock)
          IN  [pc |-> "applied", before |-> table, event |-> e, clock |-> clock,
               returned |-> returned,
               flush |-> IF FlushFails(table, e) THEN "IntegrityError" ELSE "ok",
               after |-> IF FlushFails(table, e) \/ returned = NoRow THEN table
                         ELSE [table EXCEPT ![id] = returned]]
    /\ UNCHANGED <<events, rows, now, req, pool, rb, lastRebuild, pay>>

\* The enclosing operation is over.
ProjectorEnd ==
    /\ proj.pc = "applied"
    /\ proj' = NotApplied
    /\ UNCHANGED <<events, rows, now, req, pool, rb, lastRebuild, pay>>

(* --------------------------- payment_client --------------------------- *)
MAX_RETRIES == 3

\* grpc.StatusCode values an attempt can fail with.
INVALID_ARGUMENT == "INVALID_ARGUMENT"
ALREADY_EXISTS == "ALREADY_EXISTS"
UNAVAILABLE == "UNAVAILABLE"
DEADLINE_EXCEEDED == "DEADLINE_EXCEEDED"

\* What one attempt can meet: a PaymentResponse, an RpcError (the call's
\* timeout of GRPC_TIMEOUT seconds ends it with DEADLINE_EXCEEDED), or
\* another exception.
Responses ==
    {[type |-> "response", success |-> TRUE, transaction_id |-> "txn-1",
      message |-> "approved"],
     [type |-> "response", success |-> FALSE, transaction_id |-> "",
      message |-> "declined"]}

RpcErrors ==
    {[type |-> "RpcError", code |-> c, details |-> "details"] :
        c \in {INVALID_ARGUMENT, ALREADY_EXISTS, UNAVAILABLE, DEADLINE_EXCEEDED}}

OtherExceptions == {[type |-> "Exception", text |-> "unexpected"]}

AttemptOutcomes == Responses \cup RpcErrors \cup OtherExceptions

\* last_error = None, and a call that has neither returned nor raised.
NoError == [type |-> "none"]
NoResult == [kind |-> "none"]

\* opened counts the channels grpc.insecure_channel has created for the
\* call, closed the calls of channel.close().
NoCall ==
    [pc |-> "idle", reservation_id |-> 0, attempt |-> 0, last_error |-> NoError,
     met |-> <<>>, result |-> NoResult, opened |-> 0, closed |-> 0]

\* return response.success, response.transaction_id, response.message
Returned(p, value) == [p EXCEPT !.pc = "done",
                                !.result = [kind |-> "return", value |-> value]]

\* raise PaymentServiceError(error_msg) after the loop.
Raised(p) ==
    [p EXCEPT !.pc = "done",
              !.result = [kind |-> "raise", error |-> "PaymentServiceError",
                          message |-> <<"Payment service unavailable after ",
                                        MAX_RETRIES, " attempts: ", p.last_error>>]]

\* A retry list that is empty: every RpcError is retried.
NoRetryCodesNone == {}

\* The error codes that are not retried.
NoRetryCodes == {INVALID_ARGUMENT, ALREADY_EXISTS}

\* A loop that gives up after the first failed attempt.
AfterFailureGiveUp(p) == Raised(p)

\* The end of an except block: break after the last attempt, else the next
\* iteration of the loop.
AfterFailure(p) ==
    IF p.attempt = MAX_RETRIES
    THEN Raised(p)
    ELSE [p EXCEPT !.attempt = p.attempt + 1]

\* One iteration of the loop for attempt p.attempt: a channel is created,
\* stub.ProcessPayment meets outcome; channel.close() is the statement after
\* the call, which an exception of the call skips, and no except block
\* closes the channel.
Attempt(p, outcome) ==
    LET q == [p EXCEPT !.met = Append(p.met, outcome), !.opened = @ + 1]
    IN  IF outcome.type = "response"
        THEN Returned([q EXCEPT !.closed = @ + 1],
                      <<outcome.success, outcome.transaction_id,
                        outcome.message>>)
        ELSE IF outcome.type = "RpcError"
        THEN LET e == [q EXCEPT !.last_error = outcome]
             IN  IF outcome.code \in NoRetryCodes
                 THEN Returned(e, <<FALSE, "",
                                    <<"Payment failed: ", outcome.details>> >>)
                 ELSE AfterFailure(e)
        ELSE AfterFailure([q EXCEPT !.last_error = outcome])

\* process_payment_for_reservation is called: the loop starts at attempt 1.
PaymentCall(id) ==
    /\ pay.pc = "idle"
    /\ pay' = [NoCall EXCEPT !.pc = "loop", !.reservation_id = id,
                             !.attempt = 1]
    /\ UNCHANGED <<events, rows, now, req, pool, rb, lastRebuild, proj>>

PaymentAttempt(outcome) ==
    /\ pay.pc = "loop"
    /\ pay' = Attempt(pay, outcome)
    /\ UNCHANGED <<events, rows, now, req, pool, rb, lastRebuild, proj>>

\* The caller has taken the result or the exception.
PaymentEnd ==
    /\ pay.pc = "done"
    /\ pay' = NoCall
    /\ UNCHANGED <<events, rows, now, req, pool, rb, lastRebuild, proj>>

(* --------------------------- specifications --------------------------- *)
Init ==
    /\ events = <<>>
    /\ rows = [id \in AggIds |-> NoRow]
    /\ now = 0
    /\ req = [r \in Requests |-> IdleReq]
    /\ pool = <<>>
    /\ rb = IdleRebuild
    /\ lastRebuild = NoRebuild
    /\ pay = NoCall
    /\ proj = NotApplied

\* The steps of the requests in slots R, under tenants T; B holds the
\* outcomes of the SET statement of get_context.
Begin(R, T, B) == \E r \in R, t \in T, ok \in B : BeginRequest(r, t, ok)

FailedTx(R) == \E r \in R : ResolverOnFailedTx(r)

\* create_reservation with a start time of ST.
CreateAt(R, ST) ==
    \E r \in R, u \in Users, s \in Spots, st \in ST,
       d \in Durations, c \in Costs : CreateReservation(r, u, s, st, d, c)

Create(R) == CreateAt(R, StartTimes)

Confirm(R, X) ==
    \E r \in R, id \in AggIds, txn \in X : ConfirmReservation(r, id, txn)

Cancel(R) == \E r \in R, id \in AggIds : CancelReservation(r, id)

Complete(R) == \E r \in R, id \in AggIds : CompleteReservation(r, id)

AppendStep(R) == \E r \in R : AppendAndProject(r)

CommitStep(R) == \E r \in R : Commit(r)

AbortStep(R) == \E r \in R : Abort(r)

CloseStep(R) == \E r \in R : CloseRequest(r)

Delete(R) == \E r \in R, id \in AggIds : DeleteReservation(r, id)

DeleteStep(R) == \E r \in R : DeleteCommit(r)

Query(R) ==
    \E r \in R :
        \/ \E st \in {None, PENDING}, u \in {None} \cup Users :
              QueryReservations(r, st, u)
        \/ \E id \in AggIds : QueryReservationById(r, id)
        \/ \E u \in Users, ic \in BOOLEAN : QueryReservationsByUser(r, u, ic)
        \/ \E s \in Spots : QueryReservationsByParkingSpot(r, s)
        \/ \E s \in Spots, st \in StartTimes, d \in Durations :
              QueryCheckAvailability(r, s, st, d)
        \/ QueryReservationStats(r)
        \/ \E id \in AggIds : QueryEventsByReservation(r, id)

\* The limits get_events_by_type is called with; 100 is its default.
Limits == {0, 1, 100}

EventsByType(R) ==
    \E r \in R, type \in {RESERVATION_CREATED, PAYMENT_PROCESSED},
       tenant \in Tenants \cup {None}, limit \in Limits :
        EventsByTypeCall(r, type, tenant, limit)

QueryEvents(R) == \E r \in R, id \in AggIds : QueryEventsByReservation(r, id)

\* The steps of a rebuild whose scope is one of S.
Rebuild(S) ==
    \/ \E scope \in S : RebuildRead(scope)
    \/ RebuildClear
    \/ \E i \in EventIdx : RebuildReplay(i)
    \/ RebuildCommit
    \/ RebuildAbort

\* create, confirm, cancel and complete.
Commands(R) ==
    \/ Create(R)
    \/ Confirm(R, TxnRefs \cup {None})
    \/ Cancel(R)
    \/ Complete(R)
    \/ AppendStep(R)
    \/ CommitStep(R)
    \/ AbortStep(R)
    \/ CloseStep(R)

\* Two concurrent requests of one tenant running commands.
NextCommands ==
    \/ Begin(Requests, {"tA"}, {TRUE})
    \/ Commands(Requests)
    \/ Tick

SpecCommands == Init /\ [][NextCommands]_vars

\* Two concurrent requests of two tenants: create, and the queries.
NextTenants ==
    \/ Begin(Requests, Tenants, BOOLEAN)
    \/ FailedTx(Requests)
    \/ Create(Requests)
    \/ CommitStep(Requests)
    \/ AbortStep(Requests)
    \/ CloseStep(Requests)
    \/ Query(Requests)

SpecTenants == Init /\ [][NextTenants]_vars

\* Every operation, with the clock standing still: the requests of one
\* tenant, one at a time, beside a rebuild.
NextLog ==
    \/ Begin({1}, {"tA"}, {TRUE})
    \/ Commands({1})
    \/ Delete({1})
    \/ DeleteStep({1})
    \/ Query({1})
    \/ Rebuild({None, "tA"})


SpecLog == Init /\ [][NextLog]_vars

\* The read model under create, confirm, cancel and delete_reservation of one
\* tenant, one request at a time, beside a rebuild of any scope, with the
\* clock running.
Next ==
    \/ Begin({1}, {"tA"}, {TRUE})
    \/ Create({1})
    \/ Confirm({1}, TxnRefs)
    \/ Cancel({1})
    \/ AppendStep({1})
    \/ CommitStep({1})
    \/ CloseStep({1})
    \/ Delete({1})
    \/ DeleteStep({1})
    \/ Rebuild(Tenants \cup {None})
    \/ Tick

Spec == Init /\ [][Next]_vars

\* The start times of reservations that overlap, touch or lie apart.
Windows == {10, 11, 12}

\* The commands and delete_reservation of one tenant, one request at a time,
\* with the clock running.
NextSerial ==
    \/ Begin({1}, {"tA"}, {TRUE})
    \/ CreateAt({1}, Windows)
    \/ Confirm({1}, TxnRefs)
    \/ Cancel({1})
    \/ Complete({1})
    \/ AppendStep({1})
    \/ CommitStep({1})
    \/ AbortStep({1})
    \/ CloseStep({1})
    \/ Delete({1})
    \/ DeleteStep({1})
    \/ Tick

SpecSerial == Init /\ [][NextSerial]_vars

Stats(R) == \E r \in R, countsOk \in BOOLEAN : GetReservationStats(r, countsOk)

\* Requests whose SET of app.tenant_id may fail: create and confirm, and the
\* statistics endpoint, one request at a time.
NextStats ==
    \/ Begin({1}, Tenants, BOOLEAN)
    \/ FailedTx({1})
    \/ CreateAt({1}, Windows)
    \/ Confirm({1}, TxnRefs)
    \/ AppendStep({1})
    \/ CommitStep({1})
    \/ CloseStep({1})
    \/ Stats({1})

SpecStats == Init /\ [][NextStats]_vars

\* The event streams of two tenants read back: create, confirm and cancel,
\* events_by_reservation and get_events_by_type, one request at a time.
NextStreams ==
    \/ Begin({1}, Tenants, {TRUE})
    \/ CreateAt({1}, Windows)
    \/ Confirm({1}, TxnRefs)
    \/ Cancel({1})
    \/ AppendStep({1})
    \/ CommitStep({1})
    \/ CloseStep({1})
    \/ QueryEvents({1})
    \/ EventsByType({1})
    \/ Tick

SpecStreams == Init /\ [][NextStreams]_vars

\* Rebuilds of any scope beside create and cancel of two tenants, one request
\* at a time, with the clock running.
NextRebuild ==
    \/ Begin({1}, Tenants, {TRUE})
    \/ Create({1})
    \/ Cancel({1})
    \/ AppendStep({1})
    \/ CommitStep({1})
    \/ CloseStep({1})
    \/ Rebuild(Tenants \cup {None})
    \/ Tick

SpecRebuild == Init /\ [][NextRebuild]_vars

\* What a request can carry as X-Tenant-ID and as the token's tenant_id.
TenantTexts == {Absent, Malformed} \cup {Str(t) : t \in Tenants}

BeginGraphQL(R, B) ==
    \E r \in R, header \in TenantTexts, tokenTenant \in TenantTexts, ok \in B :
        BeginGraphQLRequest(r, header, tokenTenant, ok)

\* GraphQL requests with any header and token: create and the queries.
NextContext ==
    \/ BeginGraphQL({1}, BOOLEAN)
    \/ FailedTx({1})
    \/ Create({1})
    \/ CommitStep({1})
    \/ CloseStep({1})
    \/ Query({1})

SpecContext == Init /\ [][NextContext]_vars

\* What a client can send as X-Tenant-ID: the texts above and the texts
\* uuid.UUID reads without their being a UUID's text.
HeaderTexts == TenantTexts \cup {Int16Text(t) : t \in Tenants}

BeginWithHeader(R, B) ==
    \E r \in R, header \in HeaderTexts, tokenTenant \in {Absent, Str("tA")},
       ok \in B : BeginGraphQLRequest(r, header, tokenTenant, ok)

\* Two concurrent requests with any X-Tenant-ID header, served up to the
\* first statement of the resolver, and the statistics endpoint.
NextSetTenant ==
    \/ BeginWithHeader(Requests, BOOLEAN)
    \/ FailedTx(Requests)
    \/ Stats(Requests)
    \/ CloseStep(Requests)

SpecSetTenant == Init /\ [][NextSetTenant]_vars

\* The commands of two tenants on each other's reservations, one request at
\* a time on pooled connections, the SET of app.tenant_id failing or not.
NextOwners ==
    \/ Begin({1}, Tenants, BOOLEAN)
    \/ FailedTx({1})
    \/ Create({1})
    \/ Confirm({1}, TxnRefs)
    \/ Cancel({1})
    \/ Complete({1})
    \/ AppendStep({1})
    \/ CommitStep({1})
    \/ CloseStep({1})

SpecOwners == Init /\ [][NextOwners]_vars

Ingest(R) ==
    \/ \E r \in R, id \in AggIds, arg \in KindArgs : IngestCall(r, id, arg)
    \/ \E r \in R : IngestCommit(r)

\* Events appended by a caller of its own, and rebuilds that replay them.
NextIngest ==
    \/ Begin({1}, {"tA"}, {TRUE})
    \/ CloseStep({1})
    \/ Ingest({1})
    \/ Rebuild({None})

SpecIngest == Init /\ [][NextIngest]_vars

IngestMore(R) == \E r \in R, arg \in KindArgs : IngestAgain(r, arg)

\* Sessions that append once or several times for one aggregate before they
\* commit, one at a time, with the clock running.
NextAppends ==
    \/ Begin({1}, {"tA"}, {TRUE})
    \/ CloseStep({1})
    \/ Ingest({1})
    \/ IngestMore({1})
    \/ Tick

SpecAppends == Init /\ [][NextAppends]_vars

\* The times apply_event runs at.
ApplyTimes == {1, 2}

Project ==
    \E table \in SampleTables, e \in SampleEvents, clock \in ApplyTimes :
        ProjectorApply(table, e, clock)

\* apply_event applied to every sample event in every sample session.
NextProjector ==
    \/ Project
    \/ ProjectorEnd

SpecProjector == Init /\ [][NextProjector]_vars

PaymentStart == \E id \in AggIds : PaymentCall(id)

PaymentStep == \E outcome \in AttemptOutcomes : PaymentAttempt(outcome)

\* Calls of process_payment_for_reservation, one after the other.
NextPayment ==
    \/ PaymentStart
    \/ PaymentStep
    \/ PaymentEnd

\* Every attempt ends: stub.ProcessPayment is called with a timeout, so an
\* attempt that has started meets one of the outcomes.
SpecPayment == Init /\ [][NextPayment]_vars /\ WF_vars(PaymentStep)

(* ------------------------------ properties ---------------------------- *)
\* The versions of the committed events of one aggregate.
VersionsOf(id) == {events[i].version : i \in EventsOf(events, id)}

\* The creation events of aggregate id among the events with indices in S.
CreationsOf(id, S) ==
    {i \in S : /\ events[i].aggregate_id = id
               /\ events[i].event_type = RESERVATION_CREATED}

\* C1: under concurrent command transactions that append to the same
\* aggregate, no two committed events of that aggregate have the same version.
NoDuplicateVersions ==
    \A i, j \in EventIdx :
        (i # j /\ events[i].aggregate_id = events[j].aggregate_id)
            => events[i].version # events[j].version

\* C2: for every aggregate the versions of its committed events are exactly
\* 1..N, N the number of its events, and the events get_events returns to
\* their tenant have pairwise different versions, so that their order by
\* version is strict.
VersionsAreOneToN ==
    \A id \in AggIds :
        /\ VersionsOf(id) = 1..Cardinality(EventsOf(events, id))
        /\ \A t \in Tenants : \A i, j \in GetEvents(events, t, id, Omitted) :
              i < j => events[i].version < events[j].version

\* C3: the event log is append-only: every step of every operation leaves the
\* committed events in place, with all their fields, and at most adds events
\* after them.
AppendOnly ==
    [][/\ Len(events') >= Len(events)
       /\ SubSeq(events', 1, Len(events)) = events]_vars

\* C3 at work: two events are committed, then a delete_reservation and a
\* rebuild that replayed both have committed.
AppendOnlyWitness ==
    /\ Len(events) >= 2
    /\ lastRebuild # NoRebuild
    /\ lastRebuild.count >= 2
    /\ \E r \in Requests : req[r].op = "delete" /\ req[r].out = "ok"

\* The status changes the reservation lifecycle allows.
LegalEdges ==
    {<<PENDING, CONFIRMED>>, <<PENDING, CANCELLED>>, <<PENDING, EXPIRED>>,
     <<CONFIRMED, COMPLETED>>, <<CONFIRMED, CANCELLED>>}

\* C4: under the commands create, confirm, cancel and complete, in any
\* interleaving, the status of a read-model row changes only along the legal
\* edges; a completed, cancelled or expired row never changes its status.
LegalStatusEdges ==
    [][\A id \in AggIds :
          (/\ rows[id] # NoRow
           /\ rows'[id] # NoRow
           /\ rows'[id].status # rows[id].status)
              => <<rows[id].status, rows'[id].status>> \in LegalEdges]_vars

PooledConnectionsCarryNoTenant ==
    \A i \in 1..Len(pool) : pool[i] = None

\* C7: rebuild_from_events run twice in a row on the same scope over the same
\* events, nothing committed in between, yields the same read model: every row
\* of the scope equal in every field.
RebuildIdempotent ==
    (lastRebuild # NoRebuild /\ lastRebuild.twice)
        => lastRebuild.rows = lastRebuild.prev

\* C7 at work: the second of two such rebuilds has committed after the clock
\* moved on; it replayed a creation and a PAYMENT_PROCESSED event of an
\* aggregate and rebuilt its row.
RebuildIdempotentWitness ==
    /\ lastRebuild # NoRebuild
    /\ lastRebuild.twice
    /\ now > 0
    /\ \E i \in lastRebuild.read :
          /\ events[i].event_type = PAYMENT_PROCESSED
          /\ events[i].created_at < now
          /\ lastRebuild.rows[events[i].aggregate_id] # NoRow

\* The read model a rebuild that ends in this step leaves is the full one:
\* every event it read was replayed, every aggregate whose creation it read
\* has the row made from that event, and every row it cleared whose creation
\* it did not read is gone.
FullyRebuilt ==
    /\ rb.todo = {}
    /\ rb.count = Cardinality(rb.read)
    /\ \A id \in AggIds :
          /\ \A i \in CreationsOf(id, rb.read) :
                rows'[id] = HandleReservationCreated(events[i])
          /\ (id \in rb.deleted /\ CreationsOf(id, rb.read) = {})
                => rows'[id] = NoRow

\* C8: rebuild_from_events is never partial: no step of a rebuild before its
\* end changes the committed read model, and the step that ends it either
\* leaves the read model as it was or leaves the scope fully cleared and
\* rebuilt.
RebuildNeverPartial ==
    [][/\ (rb.pc # "idle" /\ rb'.pc # "idle" /\ rb' # rb) => rows' = rows
       /\ (rb.pc # "idle" /\ rb'.pc = "idle")
             => (rows' = rows \/ FullyRebuilt)]_vars

\* C8 at work: a rebuild has cleared a confirmed row and replayed one of the
\* two events it read; the committed read model still holds the row.
RebuildNeverPartialWitness ==
    /\ rb.pc = "replay"
    /\ rb.count = 1
    /\ Cardinality(rb.read) = 2
    /\ \E id \in rb.deleted : rows[id] # NoRow /\ rows[id].status = CONFIRMED

\* The event of aggregate id with version n.
EventAt(id, n) ==
    events[CHOOSE i \in EventsOf(events, id) : events[i].version = n]

\* The aggregate's events 1..n folded through the projector; an event whose
\* handler finds no row leaves none.
RECURSIVE Fold(_, _)
Fold(id, n) ==
    IF n = 0 THEN NoRow
    ELSE ApplyEvent(Fold(id, n - 1), EventAt(id, n), EventAt(id, n).created_at)

\* C9: for every aggregate the read-model row is the fold of its events
\* 1..N through the projector: the row exists iff the fold yields a row, with
\* the fold's status and transaction reference.
RowIsFoldOfEvents ==
    \A id \in AggIds :
        LET folded == Fold(id, Cardinality(EventsOf(events, id)))
        IN  /\ (rows[id] = NoRow) <=> (folded = NoRow)
            /\ rows[id] # NoRow =>
                  /\ rows[id].status = folded.status
                  /\ rows[id].transaction_id = folded.transaction_id

\* C10: each command is all-or-nothing: a step that changes the event log or
\* the read model is the commit of one command, which appends that command's
\* event and leaves its aggregate's row with the event's status and the
\* projection's timestamp, every other row as it was; a command that ends
\* without its commit succeeding changes neither table.
CommandAllOrNothing ==
    [][/\ (events' # events \/ rows' # rows) =>
             \E r \in Requests :
                /\ req[r].pc = "commit"
                /\ req'[r].out = "ok"
                /\ events' = Append(events, req[r].ev)
                /\ rows'[req[r].id] # NoRow
                /\ rows'[req[r].id].status = req[r].ev.data.status
                /\ rows'[req[r].id].updated_at = req[r].obj.updated_at
                /\ \A id \in AggIds \ {req[r].id} : rows'[id] = rows[id]
       /\ \A r \in Requests :
             (req[r].pc \in {"append", "commit"} /\ req'[r].out \in {"aborted", "error"})
                => (events' = events /\ rows' = rows)]_vars

\* C10 at work: a confirm has committed its event and its row change while
\* another status command was aborted before its commit.
CommandAllOrNothingWitness ==
    /\ \E r \in Requests :
          /\ req[r].op = "confirm"
          /\ req[r].out = "ok"
    /\ \E r \in Requests :
          /\ req[r].op \in {"cancel", "complete"}
          /\ req[r].out = "aborted"
    /\ \E i \in EventIdx : events[i].event_type = PAYMENT_PROCESSED
    /\ \E id \in AggIds : rows[id] # NoRow /\ rows[id].status = CONFIRMED

\* C11: a create command with a duration of zero or less, a duration above
\* 24 hours or a negative cost is rejected with a validation error before
\* any event is appended: no event is pending in its session and the event
\* log and the read model are unchanged.
InvalidCreateRejected ==
    [][\A r \in Requests, u \in Users, s \in Spots, st \in Windows,
          d \in Durations, c \in Costs :
          ((d <= 0 \/ d > 24 \/ c < 0) /\ CreateReservation(r, u, s, st, d, c))
             => /\ req'[r].pc = "close"
                /\ req'[r].out = "validation"
                /\ req'[r].ev = NoEvent
                /\ events' = events
                /\ rows' = rows]_vars

\* C11 at work: a create was rejected by the validation while a reservation
\* is committed.
InvalidCreateRejectedWitness ==
    /\ Len(events) >= 1
    /\ \E r \in Requests : req[r].op = "create" /\ req[r].out = "validation"

\* The reservation ids an answer or an error holds.
ListedIds(res) == {item.id : item \in {x \in res : x.kind = "row"}}

\* C12: a create command whose window overlaps a pending or confirmed
\* reservation of the same resource is rejected before any event is appended
\* (no pending event, event log and read model unchanged), and the rejection
\* lists the ids of the conflicting reservations.
ConflictRejectedWithIds ==
    [][\A r \in Requests, u \in Users, s \in Spots, st \in Windows,
          d \in Durations, c \in Costs :
          (/\ ~(d <= 0 \/ d > 24 \/ c < 0)
           /\ Conflicts(req[r].var, s, st, st + d) # {}
           /\ CreateReservation(r, u, s, st, d, c))
             => /\ req'[r].out = "conflict"
                /\ req'[r].ev = NoEvent
                /\ events' = events
                /\ rows' = rows
                /\ ListedIds(req'[r].res) = Conflicts(req[r].var, s, st, st + d)]_vars

NewAggregateShape ==
    [][\A r \in Requests, u \in Users, s \in Spots, st \in Windows,
          d \in Durations, c \in Costs :
          (CreateReservation(r, u, s, st, d, c) /\ req'[r].pc = "commit")
             => LET agg == ReservationAggregate(req'[r].id, req[r].tenant, u, s,
                                                st, d, c, now)
                IN  /\ req'[r].ev.data = ToEventData(agg)
                    /\ agg.end_time = st + d
                    /\ agg.start_time = st
                    /\ agg.duration_hours = d
                    /\ agg.status = PENDING
                    /\ agg.transaction_id = None
                    /\ agg.created_at = agg.updated_at]_vars

\* C14 at work: a create has built its aggregate after the first reservation
\* was cancelled: its creation event is pending, with the payload's end two
\* hours after its start.
NewAggregateShapeWitness ==
    \E r \in Requests :
        /\ req[r].pc = "commit"
        /\ req[r].op = "create"
        /\ Len(events) >= 2
        /\ FromIsoFormat(req[r].ev.data.end_time)
              = FromIsoFormat(req[r].ev.data.start_time) + 2

\* C15: the creation payload is a complete snapshot: the row the projector
\* makes of the RESERVATION_CREATED event built from an aggregate's
\* to_event_data() has the aggregate's id, tenant, user, resource, start, end,
\* duration, cost, status and created and updated timestamps, whatever row the
\* read model holds and whatever the clock shows.
CreationPayloadIsSnapshot ==
    [][\A r \in Requests, u \in Users, s \in Spots, st \in Windows,
          d \in Durations, c \in Costs :
          (CreateReservation(r, u, s, st, d, c) /\ req'[r].pc = "commit")
             => LET agg == ReservationAggregate(req'[r].id, req[r].tenant, u, s,
                                                st, d, c, now)
                    row == req'[r].obj
                IN  /\ row # NoRow
                    /\ row.id = agg.id
                    /\ row.tenant_id = agg.tenant_id
                    /\ row.user_id = agg.user_id
                    /\ row.parking_spot_id = agg.parking_spot_id
                    /\ row.start_time = agg.start_time
                    /\ row.end_time = agg.end_time
                    /\ row.duration_hours = agg.duration_hours
                    /\ row.total_cost = agg.total_cost
                    /\ row.status = agg.status
                    /\ row.created_at = agg.created_at
                    /\ row.updated_at = agg.updated_at
                    /\ \A found \in {NoRow} \cup {rows[id] : id \in AggIds},
                          clock \in 0..MaxClock :
                          ApplyEvent(found, req'[r].ev, clock) = row]_vars

\* C15 at work: a creation event is projected in a session while the read
\* model holds another row: the pending row has the id of the new aggregate
\* and the start and end of its payload.
CreationPayloadIsSnapshotWitness ==
    \E r \in Requests :
        /\ req[r].pc = "commit"
        /\ req[r].op = "create"
        /\ req[r].obj # NoRow
        /\ req[r].obj.id = req[r].id
        /\ req[r].obj.end_time = FromIsoFormat(req[r].ev.data.end_time)
        /\ \E id \in AggIds : rows[id] # NoRow /\ id # req[r].id

\* The values from_version is drawn from.
FromVersions == {Omitted} \cup {<<n>> : n \in 0..(MaxEvents + 1)}

\* C16: get_events(aggregate_id, from_version) returns exactly the events of
\* the aggregate that the session's tenant holds with version >= from_version
\* (all of them when from_version is omitted, none for an aggregate without
\* events), each once, in ascending version order; events_by_reservation
\* answers with them and changes neither the event log nor the read model, so
\* that a repeated call returns the same list.
GetEventsExact ==
    [][/\ \A id \in AggIds, t \in Tenants, fv \in FromVersions :
             LET list == GetEventsList(events, t, id, fv)
                 wanted == {i \in EventIdx :
                               /\ events[i].aggregate_id = id
                               /\ events[i].tenant_id = t
                               /\ fv = Omitted \/ events[i].version >= fv[1]}
             IN  /\ {list[k] : k \in 1..Len(list)} = wanted
                 /\ Len(list) = Cardinality(wanted)
                 /\ \A k, l \in 1..Len(list) :
                       k < l => events[list[k]].version <= events[list[l]].version
       /\ \A r \in Requests, id \in AggIds :
             QueryEventsByReservation(r, id)
                => /\ events' = events
                   /\ rows' = rows
                   /\ req'[r].res =
                         {EventItem(i) : i \in {j \in EventIdx :
                             /\ events[j].aggregate_id = id
                             /\ events[j].tenant_id = req[r].tenant}}
                   /\ GetEventsList(events', req[r].var, id, Omitted)
                         = GetEventsList(events, req[r].var, id, Omitted)]_vars

\* C16 at work: events_by_reservation has answered with the two events of an
\* aggregate while the log also holds an event of another aggregate.
GetEventsExactWitness ==
    \E r \in Requests :
        /\ req[r].op = "eventsByReservation"
        /\ req[r].out = "ok"
        /\ Cardinality(req[r].res) = 2
        /\ Len(events) = 3

\* C17: get_events_by_type(kind, tenant_id, limit) returns at most limit
\* events, all of the requested kind, by descending creation time, none of
\* the events it leaves out being more recent than one it returns, and every
\* returned event belongs to the tenant when one is given; it changes neither
\* table.
EventsByTypeRecent ==
    [][\A r \in Requests, type \in EventType, tenant \in Tenants \cup {None},
          limit \in Limits :
          EventsByTypeCall(r, type, tenant, limit)
             => LET res == req'[r].res
                    left == {i \in EventIdx :
                                /\ events[i].event_type = type
                                /\ events[i].tenant_id = req[r].tenant
                                /\ tenant # None => events[i].tenant_id = tenant
                                /\ \A x \in res :
                                      <<x.id, x.version>>
                                         # <<events[i].aggregate_id, events[i].version>>}
                IN  /\ Cardinality(res) <= limit
                    /\ \A x \in res : x.event_type = type
                    /\ \A x, y \in res : x.pos < y.pos => x.created_at >= y.created_at
                    /\ \A x \in res : \A i \in left :
                          events[i].created_at <= x.created_at
                    /\ (Cardinality(res) < limit) => left = {}
                    /\ tenant # None => \A x \in res : x.tenant_id = tenant
                    /\ events' = events
                    /\ rows' = rows]_vars

\* C17 at work: with two creation events of one tenant, made at different
\* times, in the log, a call with limit 1 has returned the later one.
EventsByTypeRecentWitness ==
    \E r \in Requests :
        /\ req[r].op = "getEventsByType"
        /\ req[r].out = "ok"
        /\ \E x \in req[r].res :
              /\ x.event_type = RESERVATION_CREATED
              /\ x.created_at > 0
              /\ \E i \in EventIdx :
                    /\ events[i].event_type = RESERVATION_CREATED
                    /\ events[i].tenant_id = x.tenant_id
                    /\ events[i].created_at < x.created_at
        /\ Cardinality(req[r].res) = 1

\* C18: confirm, cancel, complete and delete on an id with no reservation
\* are rejected as not found, with an error kind that is not the kind of a
\* validation error, and append no event.
UnknownIdRejectedDistinctly ==
    [][\A r \in Requests, id \in AggIds :
          /\ \A op \in {"confirm", "cancel", "complete"}, txn \in TxnRefs \cup {None} :
                (SelectRow(req[r].var, id) = NoRow /\ SelectForCommand(r, op, id, txn))
                   => /\ req'[r].out = "not_found"
                      /\ req'[r].kind # ErrorKind("create", "validation")
                      /\ req'[r].ev = NoEvent
                      /\ events' = events
          /\ (SelectRow(req[r].var, id) = NoRow /\ DeleteReservation(r, id))
                => /\ req'[r].out = "not_found"
                   /\ req'[r].kind # ErrorKind("create", "validation")
                   /\ req'[r].ev = NoEvent
                   /\ events' = events]_vars

\* The part of C18 that the commands keep: a command on an unknown id ends
\* the request as not found and leaves the event log as it was.
UnknownIdAppendsNothing ==
    [][\A r \in Requests :
          (req[r].pc = "ctx" /\ req'[r].out = "not_found")
             => req'[r].pc = "close" /\ req'[r].ev = NoEvent /\ events' = events]_vars

\* C19: when the version an append assigned is already in the log for that
\* aggregate at the time the command commits (a version race), the append
\* fails, neither the event nor the row change is written, and the command
\* ends with an error whose kind is not the kind of a storage error.
VersionRaceFailsAsConcurrencyError ==
    [][\A r \in Requests :
          (/\ req[r].pc = "commit"
           /\ req[r].ev # NoEvent
           /\ \E i \in EventsOf(events, req[r].ev.aggregate_id) :
                 events[i].version = req[r].ev.version
           /\ Commit(r))
             => /\ events' = events
                /\ rows' = rows
                /\ req'[r].pc = "close"
                /\ req'[r].kind \notin {None, ErrorKind(req[r].op, "aborted")}]_vars

\* C20: a failure in a database or tenant-context operation reaches the
\* caller as an error: a request whose SET of app.tenant_id failed, and a
\* statistics request one of whose counts failed, ends with an error kind,
\* never with a result.
FailuresReachCaller ==
    [][\A r \in Requests :
          /\ (req[r].pc = "ctx" /\ ~req[r].txOk /\ req'[r].pc = "close")
                => req'[r].kind # None
          /\ (~req[r].txOk /\ GetReservationStats(r, TRUE))
                => req'[r].kind # None
          /\ GetReservationStats(r, FALSE) => req'[r].kind # None]_vars

\* The part of C20 the GraphQL resolvers keep: after a failed SET the
\* resolver's first statement raises, and the request ends with an error.
FailedSetReachesGraphQLCaller ==
    [][\A r \in Requests :
          (req[r].pc = "ctx" /\ ~req[r].txOk /\ req'[r].pc = "close"
              /\ req'[r].op # "stats")
             => req'[r].kind # None /\ req'[r].res = {}]_vars

\* An error an attempt is repeated after.
Retryable(outcome) ==
    \/ outcome.type = "Exception"
    \/ outcome.type = "RpcError" /\ outcome.code \notin {INVALID_ARGUMENT, ALREADY_EXISTS}

\* C21: process_payment_for_reservation terminates; it makes at most
\* MAX_RETRIES attempts, every attempt before the last having failed with a
\* retryable error; an attempt that gets a response returns the response's
\* (success, transaction_id, message); and it raises PaymentServiceError
\* exactly when MAX_RETRIES attempts have failed with a retryable error.
PaymentTerminatesWithinRetries ==
    /\ [](/\ Len(pay.met) <= MAX_RETRIES
          /\ pay.pc = "loop" => pay.attempt = Len(pay.met) + 1 /\ pay.attempt <= MAX_RETRIES
          /\ \A k \in 1..(Len(pay.met) - 1) : Retryable(pay.met[k])
          /\ pay.pc = "done" =>
                LET last == pay.met[Len(pay.met)]
                IN  /\ last.type = "response" =>
                          pay.result = [kind |-> "return",
                                        value |-> <<last.success, last.transaction_id,
                                                    last.message>>]
                    /\ pay.result.kind = "raise" <=>
                          (Len(pay.met) = MAX_RETRIES /\ Retryable(last))
                    /\ pay.result.kind = "raise" =>
                          pay.result.error = "PaymentServiceError")
    /\ (pay.pc = "loop" ~> pay.pc = "done")

\* C21 at work: a call has raised after three failed attempts.
PaymentRaisedWitness ==
    /\ pay.pc = "done"
    /\ pay.result.kind = "raise"
    /\ Len(pay.met) = MAX_RETRIES

\* C22: an attempt that fails with INVALID_ARGUMENT or ALREADY_EXISTS is the
\* last one: the call ends there, without raising, and returns
\* (False, "", message) with the error's details in the message.
NoRetryOnRejectedPayment ==
    \A k \in 1..Len(pay.met) :
        (pay.met[k].type = "RpcError"
            /\ pay.met[k].code \in {INVALID_ARGUMENT, ALREADY_EXISTS})
           => /\ k = Len(pay.met)
              /\ pay.pc = "done"
              /\ pay.result.kind = "return"
              /\ pay.result.value[1] = FALSE
              /\ pay.result.value[2] = ""
              /\ \E j \in 1..Len(pay.result.value[3]) :
                    pay.result.value[3][j] = pay.met[k].details

\* C22 at work: after a first attempt that was retried, the second attempt
\* failed with ALREADY_EXISTS and the call returned.
NoRetryOnRejectedPaymentWitness ==
    /\ pay.pc = "done"
    /\ Len(pay.met) = 2
    /\ pay.met[2].type = "RpcError"
    /\ pay.met[2].code = ALREADY_EXISTS
    /\ pay.result.kind = "return"

\* C23: a status-change event (confirmed, cancelled, completed, expired)
\* applied to a present row sets the row's status to the event's and its
\* updated timestamp to the time of the call, and leaves every other field
\* of the row and every other row as they were.
StatusChangeFrame ==
    (proj.pc = "applied"
        /\ proj.event.event_type \in {RESERVATION_CONFIRMED, RESERVATION_CANCELLED,
                                      RESERVATION_COMPLETED, RESERVATION_EXPIRED}
        /\ proj.before[UUID(proj.event.data.id)] # NoRow)
       => LET id == UUID(proj.event.data.id)
              old == proj.before[id]
              new == proj.after[id]
          IN  /\ proj.returned = new
              /\ new.status = proj.event.data.status
              /\ new.updated_at = proj.clock
              /\ \A f \in DOMAIN old \ {"status", "updated_at"} : new[f] = old[f]
              /\ DOMAIN new = DOMAIN old
              /\ \A other \in AggIds \ {id} : proj.after[other] = proj.before[other]

\* C23 at work: an expired event has been applied to a confirmed row that
\* has a transaction reference, beside another row.
StatusChangeFrameWitness ==
    /\ proj.pc = "applied"
    /\ proj.event.event_type = RESERVATION_EXPIRED
    /\ LET id == UUID(proj.event.data.id)
       IN  /\ proj.before[id] # NoRow
           /\ proj.before[id].status = CONFIRMED
           /\ proj.before[id].transaction_id # None
           /\ proj.after[id].status = EXPIRED
           /\ \E other \in AggIds \ {id} : proj.before[other] # NoRow

\* C24: a payment-processed event applied to a present row sets status =
\* confirmed and the transaction reference to the event's (none when the
\* event carries none or an empty one); a payment-failed event applied to a
\* present row sets status = cancelled and leaves the reference as it was.
PaymentEventsProjected ==
    (proj.pc = "applied" /\ proj.before[UUID(proj.event.data.id)] # NoRow)
       => LET id == UUID(proj.event.data.id)
              old == proj.before[id]
              new == proj.after[id]
              txn == proj.event.data.transaction_id
          IN  /\ proj.event.event_type = PAYMENT_PROCESSED
                    => /\ new.status = CONFIRMED
                       /\ new.transaction_id = IF txn \in {None, ""} THEN None ELSE txn
                       /\ proj.returned = new
              /\ proj.event.event_type = PAYMENT_FAILED
                    => /\ new.status = CANCELLED
                       /\ new.transaction_id = old.transaction_id
                       /\ proj.returned = new

\* C24 at work: a payment-processed event with a reference has been applied
\* to a pending row that carried another reference.
PaymentEventsProjectedWitness ==
    /\ proj.pc = "applied"
    /\ proj.event.event_type = PAYMENT_PROCESSED
    /\ proj.event.data.transaction_id = "TXN-1"
    /\ LET id == UUID(proj.event.data.id)
       IN  /\ proj.before[id] # NoRow
           /\ proj.before[id].status = PENDING
           /\ proj.before[id].transaction_id = "TXN-0"
           /\ proj.after[id].transaction_id = "TXN-1"

\* C25: a non-creation event whose row is absent does not fail: apply_event
\* returns absence, the read model and the rows the replay holds are left as
\* they were, and the rebuild goes on (the event is counted, the replay is
\* still running with the remaining events).
AnomalySkipped ==
    [][\A i \in EventIdx :
          (/\ rb.pc = "replay"
           /\ i \in rb.todo
           /\ events[i].event_type # RESERVATION_CREATED
           /\ RebuildLookup(UUID(events[i].data.id)) = NoRow
           /\ RebuildReplay(i))
             => /\ ApplyEvent(NoRow, events[i], now) = NoRow
                /\ rb'.pc = "replay"
                /\ rb'.pending = rb.pending
                /\ rb'.deleted = rb.deleted
                /\ rb'.count = rb.count + 1
                /\ rb'.todo = rb.todo \ {i}
                /\ rows' = rows]_vars

\* C25 at work: a rebuild has replayed a status event that found no row and,
\* after it, a later event.
AnomalySkippedWitness ==
    /\ rb.pc = "replay"
    /\ \E i, j \in rb.read \ rb.todo :
          /\ events[i].event_type # RESERVATION_CREATED
          /\ events[i].created_at < events[j].created_at
          /\ LET id == UUID(events[i].data.id)
             IN  /\ id \in rb.added
                 /\ id \in rb.deleted
                 /\ rb.pending[id].status = PENDING

\* C26: for every event kind and every read-model state, the referenced row
\* present or absent, apply_event yields a row or absence and the enclosing
\* operation does not fail.
ProjectorTotal ==
    proj.pc = "applied"
       => /\ proj.event.event_type \in EventType
          /\ \/ proj.returned = NoRow
             \/ proj.returned.id = UUID(proj.event.data.id)
          /\ proj.flush = "ok"

\* The part of C26 that apply_event keeps: whenever the event is not a
\* creation event for a row that is present, it yields a row or absence and
\* the flush goes through.
ProjectorTotalElsewhere ==
    (proj.pc = "applied"
        /\ ~(proj.event.event_type = RESERVATION_CREATED
                /\ proj.before[UUID(proj.event.data.id)] # NoRow))
       => /\ \/ proj.returned = NoRow
             \/ proj.returned.id = UUID(proj.event.data.id)
          /\ proj.flush = "ok"

\* C27: rebuild_from_events reads all events of its scope (all, or one
\* tenant's), clears the read-model rows of the same scope, replays every
\* event it read, each no later in creation time than those still to come,
\* and returns the number of events it read, the skipped ones included.
RebuildReplaysScope ==
    [][/\ \A scope \in Tenants \cup {None} :
             RebuildRead(scope)
                => /\ rb'.read = {i \in EventIdx :
                                     scope = None \/ events[i].tenant_id = scope}
                   /\ rb'.todo = rb'.read
                   /\ rb'.count = 0
       /\ RebuildClear
             => /\ rb'.deleted = {id \in AggIds :
                                     /\ rows[id] # NoRow
                                     /\ rb.scope = None \/ rows[id].tenant_id = rb.scope}
                /\ rb'.todo = rb.read
       /\ \A i \in EventIdx :
             RebuildReplay(i)
                => /\ \A j \in rb.todo : events[i].created_at <= events[j].created_at
                   /\ rb'.todo = rb.todo \ {i}
                   /\ rb'.count = rb.count + 1
       /\ RebuildCommit
             => /\ rb.todo = {}
                /\ lastRebuild'.count = Cardinality(rb.read)
                /\ \A id \in rb.deleted :
                      rows'[id] # NoRow => id \in rb.added]_vars

\* C27 at work: a rebuild of one tenant's scope has returned 2 for that
\* tenant's creation and cancellation while the log holds an event of the
\* other tenant, whose row is still there.
RebuildReplaysScopeWitness ==
    /\ lastRebuild # NoRebuild
    /\ lastRebuild.scope # None
    /\ lastRebuild.count = 2
    /\ \E i \in lastRebuild.read : events[i].event_type = RESERVATION_CANCELLED
    /\ \E i \in EventIdx : events[i].tenant_id # lastRebuild.scope
    /\ \E id \in AggIds : rows[id] # NoRow /\ rows[id].tenant_id # lastRebuild.scope

IllegalTransitionRejected ==
    [][\A r \in Requests, id \in AggIds, txn \in TxnRefs \cup {None} :
          LET row == SelectRow(req[r].var, id)
              rejected == /\ req'[r].pc = "close"
                          /\ req'[r].out = "illegal"
                          /\ req'[r].kind # None
                          /\ req'[r].ev = NoEvent
                          /\ events' = events
                          /\ rows' = rows
          IN  /\ (row # NoRow /\ row.status # PENDING
                     /\ SelectForCommand(r, "confirm", id, txn)) => rejected
              /\ (row # NoRow /\ row.status \notin {PENDING, CONFIRMED}
                     /\ SelectForCommand(r, "cancel", id, txn)) => rejected
              /\ (row # NoRow /\ row.status # CONFIRMED
                     /\ SelectForCommand(r, "complete", id, txn)) => rejected]_vars

\* C29 at work: a cancel of a completed reservation has been rejected.
IllegalTransitionRejectedWitness ==
    \E r \in Requests :
        /\ req[r].op = "cancel"
        /\ req[r].out = "illegal"
        /\ \E id \in AggIds : rows[id] # NoRow /\ rows[id].status = COMPLETED
        /\ \A id \in AggIds : rows[id] # NoRow => rows[id].status = COMPLETED

\* The tenant a request with this header and token is served for.
ExpectedTenant(header, tokenTenant) ==
    IF header # Absent
    THEN IF ValidUUIDText(header) THEN UUID(header) ELSE DEFAULT_TENANT_ID
    ELSE IF tokenTenant # Absent
    THEN IF ValidUUIDText(tokenTenant) THEN UUID(tokenTenant) ELSE DEFAULT_TENANT_ID
    ELSE DEFAULT_TENANT_ID

\* C30: every GraphQL request gets the tenant of its header, else of its
\* token, else the default one, the default one also for a malformed value;
\* that tenant is set on the session before a resolver runs, and the tenant
\* of the resolver context, which stamps events and rows, is the session's.
TenantSetBeforeResolvers ==
    [][/\ \A r \in Requests, header \in TenantTexts, tokenTenant \in TenantTexts,
             ok \in BOOLEAN :
             BeginGraphQLRequest(r, header, tokenTenant, ok)
                => /\ req'[r].tenant = ExpectedTenant(header, tokenTenant)
                   /\ req'[r].var = req'[r].tenant
       /\ \A r \in Requests :
             (req'[r].ev # NoEvent /\ req[r].ev = NoEvent)
                => /\ req'[r].ev.tenant_id = req'[r].var
                   /\ req'[r].obj.tenant_id = req'[r].var]_vars

\* The part of C30 that holds: whenever the SET statement went through, the
\* request is served for the expected tenant, the session carries it, and
\* what the resolvers stamp is the session's tenant.
TenantSetWhenSetSucceeds ==
    [][/\ \A r \in Requests, header \in TenantTexts, tokenTenant \in TenantTexts :
             BeginGraphQLRequest(r, header, tokenTenant, TRUE)
                => /\ req'[r].tenant = ExpectedTenant(header, tokenTenant)
                   /\ req'[r].var = req'[r].tenant
       /\ \A r \in Requests, header \in TenantTexts, tokenTenant \in TenantTexts :
             BeginGraphQLRequest(r, header, tokenTenant, FALSE)
                => /\ req'[r].tenant = ExpectedTenant(header, tokenTenant)
                   /\ ~req'[r].txOk
       /\ \A r \in Requests :
             (req'[r].ev # NoEvent /\ req[r].ev = NoEvent)
                => /\ req'[r].ev.tenant_id = req'[r].var
                   /\ req'[r].obj.tenant_id = req'[r].var]_vars

\* C31: every SET app.tenant_id statement a request executed carries the
\* text of a well-formed UUID: set_tenant_id raises ValueError and executes
\* nothing for every other text.
SetOnlyWellFormedUUID ==
    \A r \in Requests : \A k \in 1..Len(req[r].stmts) :
        ValidUUIDTextStrict(req[r].stmts[k])

\* The part of C31 that holds: a text uuid.UUID refuses raises ValueError
\* and reaches no statement; get_context then sets the default tenant, and
\* set_tenant_id(None) executes nothing.
RefusedTextSetsNothing ==
    [][\A r \in Requests, header \in HeaderTexts, tokenTenant \in HeaderTexts,
          ok \in BOOLEAN :
          (/\ ~ValidUUIDText(NamedTenant(header, tokenTenant))
           /\ BeginGraphQLRequest(r, header, tokenTenant, ok))
             => /\ SetTenantIdCall(NamedTenant(header, tokenTenant))
                      = [raised |-> TRUE, stmts |-> <<>>]
                /\ SetTenantIdCall(Absent) = [raised |-> FALSE, stmts |-> <<>>]
                /\ req'[r].stmts = <<Str(DEFAULT_TENANT_ID)>>]_vars

\* C32: in every committed state no two reservations of one tenant for the
\* same parking spot that are both pending or confirmed have overlapping
\* time windows.
NoDoubleBooking ==
    \A a \in AggIds, b \in AggIds :
        (/\ a # b
         /\ rows[a] # NoRow /\ rows[b] # NoRow
         /\ rows[a].tenant_id = rows[b].tenant_id
         /\ rows[a].parking_spot_id = rows[b].parking_spot_id
         /\ rows[a].status \in ActiveStatuses
         /\ rows[b].status \in ActiveStatuses)
            => ~(rows[a].start_time < rows[b].end_time
                 /\ rows[a].end_time > rows[b].start_time)

\* C33: two successive EventStore.append calls for one aggregate id on one
\* session, with no flush or commit between them, receive the consecutive
\* versions v and v + 1.
SuccessiveAppendsConsecutive ==
    \A r \in Requests :
        (req[r].pc = "ingest" /\ req[r].more # <<>>)
            => /\ req[r].more[1].version = req[r].ev.version + 1
               /\ \A k \in 2..Len(req[r].more) :
                     req[r].more[k].version = req[r].more[k - 1].version + 1

\* C34: rebuild_from_events applies the events of any one aggregate in
\* ascending version order, whatever their created_at values are: no event
\* is replayed while an event of its aggregate with a lower version waits.
ReplayInVersionOrder ==
    [][\A i \in EventIdx :
          RebuildReplay(i)
             => \A j \in rb.todo :
                   events[j].aggregate_id = events[i].aggregate_id
                      => events[i].version <= events[j].version]_vars

\* The part of C34 that holds: an event is replayed before the events of
\* its aggregate that carry a later created_at.
ReplayInCreatedAtOrder ==
    [][\A i \in EventIdx :
          RebuildReplay(i)
             => \A j \in rb.todo :
                   (/\ events[j].aggregate_id = events[i].aggregate_id
                    /\ events[i].created_at < events[j].created_at)
                      => events[i].version < events[j].version]_vars

CommittedSinceRead ==
    {i \in EventIdx \ rb.read : InScope(rb.scope, events[i].tenant_id)}

\* C36: a rebuild running beside commands loses nothing: when a command has
\* committed between the rebuild's read of the event log and its commit,
\* the read model the rebuild's commit leaves has, for every aggregate of
\* the scope with a creation event, a row whose status is the fold of all
\* its committed events.
ConcurrentRebuildLosesNothing ==
    [][(RebuildCommit /\ CommittedSinceRead # {})
          => \A id \in AggIds :
                (\E i \in CreationsOf(id, EventIdx) :
                    InScope(rb.scope, events[i].tenant_id))
                   => /\ rows'[id] # NoRow
                      /\ rows'[id].status =
                            Fold(id, Cardinality(EventsOf(events, id))).status]_vars

\* The part of C36 that holds: the rebuild's commit leaves a row for every
\* aggregate whose creation event its SELECT returned.
RebuildKeepsWhatItRead ==
    [][RebuildCommit
          => \A id \in AggIds :
                CreationsOf(id, rb.read) # {} => rows'[id] # NoRow]_vars

\* C37: rebuild_from_events(tenant_id = T) changes only tenant T's part of
\* the read model: it replays no event of another tenant, and its commit
\* leaves every row of another tenant as it was, deleting, changing and
\* creating none; no earlier step of it changes the read model.
RebuildTouchesOnlyItsTenant ==
    [][/\ \A i \in EventIdx :
             (RebuildReplay(i) /\ rb.scope # None)
                => /\ events[i].tenant_id = rb.scope
                   /\ \A id \in AggIds :
                         rb'.pending[id] # NoRow
                            => rb'.pending[id].tenant_id = rb.scope
       /\ (RebuildClear /\ rb.scope # None)
             => \A id \in rb'.deleted : rows[id].tenant_id = rb.scope
       /\ (RebuildCommit /\ rb.scope # None)
             => \A id \in AggIds :
                   /\ (rows[id] # NoRow /\ rows[id].tenant_id # rb.scope)
                         => rows'[id] = rows[id]
                   /\ (rows[id] = NoRow /\ rows'[id] # NoRow)
                         => rows'[id].tenant_id = rb.scope
       /\ (rb.pc # "idle" /\ rb'.pc # "idle" /\ rb' # rb) => rows' = rows]_vars

\* C37 at work: a rebuild of tenant tA has committed and left tA's row as
\* its creation event gives it, while tenant tB's reservation, which has a
\* creation and a cancellation in the log, still is CANCELLED.
RebuildTouchesOnlyItsTenantWitness ==
    /\ lastRebuild # NoRebuild
    /\ lastRebuild.scope = "tA"
    /\ lastRebuild.count = 1
    /\ \E id \in AggIds : rows[id] # NoRow /\ rows[id].tenant_id = "tA"
    /\ \E id \in AggIds :
          /\ rows[id] # NoRow
          /\ rows[id].tenant_id = "tB"
          /\ rows[id].status = CANCELLED
          /\ Cardinality(EventsOf(events, id)) = 2

\* delete_reservation has removed reservation id and its request is not yet
\* closed.
Removed(id) ==
    \E r \in Requests :
        /\ req[r].pc = "close"
        /\ req[r].op = "delete"
        /\ req[r].out = "ok"
        /\ req[r].id = id
        /\ rows[id] = NoRow

\* C38: a reservation removed by a successful delete_reservation stays
\* removed: the commit of a rebuild that covers its tenant and that read the
\* event log when the row was gone already leaves no row with its id.
DeletedStaysRemoved ==
    [][\A id \in AggIds :
          (/\ Removed(id)
           /\ id \in rb.gone
           /\ RebuildCommit)
             => rows'[id] = NoRow]_vars

\* The part of C38 that holds: delete_reservation itself removes the row,
\* and no command brings a removed reservation back.
DeletedStaysRemovedByCommands ==
    [][\A id \in AggIds :
          (/\ rows[id] = NoRow
           /\ EventsOf(events, id) # {}
           /\ ~RebuildCommit)
             => rows'[id] = NoRow]_vars

\* C40: process_payment_for_reservation closes every gRPC channel it opens,
\* on every attempt and on every exit path: between two attempts and when
\* the call has returned or raised, no channel it opened is left open.
EveryChannelClosed ==
    pay.pc \in {"loop", "done"} => pay.closed = pay.opened

\* The part of C40 that holds: one channel is opened per attempt, and the
\* channel of an attempt that received a response is closed before the
\* call returns.
ChannelClosedAfterResponse ==
    /\ pay.opened = Len(pay.met)
    /\ pay.closed =
          Cardinality({k \in 1..Len(pay.met) : pay.met[k].type = "response"})

\* C39: in every reachable state every aggregate of the log has a version-1
\* event, an event is a RESERVATION_CREATED event exactly when its version
\* is 1, and every read-model row has a committed creation event whose
\* aggregate id is the row's id.
CreationIsFirstEvent ==
    /\ \A i \in EventIdx :
          /\ (events[i].version = 1) <=> (events[i].event_type = RESERVATION_CREATED)
          /\ \E j \in EventsOf(events, events[i].aggregate_id) :
                events[j].version = 1
    /\ \A id \in AggIds :
          rows[id] # NoRow
             => /\ rows[id].id = id
                /\ \E i \in CreationsOf(id, EventIdx) :
                      UUID(events[i].data.id) = rows[id].id

\* C39 at work: an aggregate has its creation and two later events, and its
\* row stands as a rebuild has made it from the creation event.
CreationIsFirstEventWitness ==
    /\ lastRebuild # NoRebuild
    /\ \E id \in AggIds :
          /\ Cardinality(EventsOf(events, id)) = 3
          /\ VersionsOf(id) = {1, 2, 3}
          /\ rows[id] # NoRow
          /\ lastRebuild.rows[id] = rows[id]

=============================================================================
